---------------------------- MODULE Spec2Model ----------------------------
(***************************************************************************)
(* A model of db4s_daily_stats_gen (src/main.go): the batch job that       *)
(* registers the DB4S versions seen in download_log, walks the daily,      *)
(* weekly and monthly buckets, aggregates unique clients (getIPs) and      *)
(* downloads (getDownloads) per bucket and upserts the counts into the six *)
(* rollup tables.                                                          *)
(*                                                                         *)
(* Conventions.                                                            *)
(*  - A time is an integer number of ticks since 1970-01-01 00:00 UTC,     *)
(*    TicksPerDay ticks to the day; time.Now() is read in UTC.             *)
(*  - A string that the program takes apart (a user agent, a version       *)
(*    label) is a sequence of tokens; the tokens form a prefix code, so    *)
(*    two sequences are equal exactly when the strings they spell are.     *)
(*    Other strings (request paths, IP texts) are TLA+ strings.            *)
(*  - A nullable column holds <<>> (NULL) or <<v>>.                        *)
(*  - A table is a bag of rows: the model does not assume the uniqueness   *)
(*    that the indexes of the schema are there to enforce.                 *)
(***************************************************************************)
EXTENDS Integers, Sequences, FiniteSets, Bags, TLC

(***************************************************************************)
(* Bounds of the model.                                                    *)
(***************************************************************************)
TicksPerDay == 2
MaxLog == 2
MaxRuns == 2
MaxCount == 2

(***************************************************************************)
(* Calendar arithmetic of package time, as main() uses it.                 *)
(***************************************************************************)
DaysFromCivil(y, m, d) ==
    LET yy  == IF m <= 2 THEN y - 1 ELSE y
        era == yy \div 400
        yoe == yy - era * 400
        mp  == (m + 9) % 12
        doy == ((153 * mp + 2) \div 5) + d - 1
        doe == (yoe * 365) + (yoe \div 4) - (yoe \div 100) + doy
    IN  (era * 146097) + doe - 719468

CivilFromDays(z) ==
    LET zz  == z + 719468
        era == zz \div 146097
        doe == zz - era * 146097
        yoe == (doe - (doe \div 1460) + (doe \div 36524) - (doe \div 146096)) \div 365
        doy == doe - ((365 * yoe) + (yoe \div 4) - (yoe \div 100))
        mp  == (5 * doy + 2) \div 153
        d   == doy - ((153 * mp + 2) \div 5) + 1
        m   == IF mp < 10 THEN mp + 3 ELSE mp - 9
        y   == yoe + (era * 400) + (IF m <= 2 THEN 1 ELSE 0)
    IN  [year |-> y, month |-> m, day |-> d]

\* time.Date(y, m, d, 0, 0, 0, 0, time.UTC): month and day out of range are
\* normalised (month 13 is January of the next year, January 32 is February 1)
Date(y, m, d) ==
    LET m0 == m - 1
        yn == y + (m0 \div 12)
        mn == (m0 % 12) + 1
    IN  (DaysFromCivil(yn, mn, 1) + d - 1) * TicksPerDay

DayOf(t) == t \div TicksPerDay
TimeOfDay(t) == t % TicksPerDay
Year(t) == CivilFromDays(DayOf(t)).year
Month(t) == CivilFromDays(DayOf(t)).month
Day(t) == CivilFromDays(DayOf(t)).day

\* t.AddDate(years, months, days): the civil date moved, then normalised as
\* time.Date does, the time of day kept
AddDate(t, years, months, days) ==
    Date(Year(t) + years, Month(t) + months, Day(t) + days) + TimeOfDay(t)

\* t.Add(time.Hour * 24)
AddHours24(t) == t + TicksPerDay

\* t.Before(u)
Before(t, u) == t < u

\* t.Weekday(): Sunday = 0 ... Saturday = 6 (1970-01-01 was a Thursday)
Weekday(t) == (DayOf(t) + 4) % 7

\* t.ISOWeek(): the week number of the Thursday of t's Monday-based week
ISOWeek(t) ==
    LET d0   == 4 - Weekday(t)
        d    == IF d0 = 4 THEN -3 ELSE d0
        thu  == DayOf(t) + d
        yr   == CivilFromDays(thu).year
        yday == thu - DaysFromCivil(yr, 1, 1)
    IN  [year |-> yr, week |-> (yday \div 7) + 1]

(***************************************************************************)
(* Strings, NULL and pgtype.Text.                                          *)
(***************************************************************************)
NULL == <<>>
NotNull(v) == <<v>>
EmptyString == <<>>
Str(tok) == <<tok>>

\* rows.Scan into a pgtype.Text: NULL scans to {String: "", Valid: false}
ScanText(col) ==
    IF col = NULL THEN [String |-> EmptyString, Valid |-> FALSE]
                  ELSE [String |-> col[1], Valid |-> TRUE]

FamilyPrefix == "sqlitebrowser "
CrawlerMarker == "AppEngine"

\* strings.TrimPrefix(s, "sqlitebrowser "): the prefix is dropped once
TrimPrefix(s) ==
    IF Len(s) >= 1 /\ s[1] = FamilyPrefix THEN Tail(s) ELSE s

\* http_user_agent LIKE 'sqlitebrowser %' on a non-NULL text
LikeFamily(s) == Len(s) >= 1 /\ s[1] = FamilyPrefix

\* http_user_agent NOT LIKE '%AppEngine%' on a non-NULL text
NotLikeCrawler(s) == \A i \in 1..Len(s) : s[i] # CrawlerMarker

\* the filter on http_user_agent: a NULL user agent makes it NULL, not true
UserAgentMatches(col) ==
    col # NULL /\ LikeFamily(col[1]) /\ NotLikeCrawler(col[1])

\* md5.Sum([]byte(s)): a digest, taken to be free of collisions
md5Sum(s) == [md5 |-> s]

(***************************************************************************)
(* Bags and maps.                                                          *)
(***************************************************************************)
\* the row orders in which a result set (or a bag of rows) can be delivered
RECURSIVE BagSeqs(_)
BagSeqs(B) ==
    IF BagToSet(B) = {} THEN {<<>>}
    ELSE UNION { { <<r>> \o q : q \in BagSeqs(B (-) SetToBag({r})) } : r \in BagToSet(B) }

\* the orders in which the elements of a set can be visited
RECURSIVE Perms(_)
Perms(S) ==
    IF S = {} THEN {<<>>}
    ELSE UNION { { <<x>> \o q : q \in Perms(S \ {x}) } : x \in S }

\* SELECT count(*) over the rows of B that satisfy P
CountWhere(B, P(_)) == BagCardinality([r \in {x \in BagToSet(B) : P(x)} |-> B[r]])

\* the rows of B that satisfy P, each as often as B holds it
SelectWhere(B, P(_)) == [r \in {x \in BagToSet(B) : P(x)} |-> B[r]]

\* m[k]++ on a Go map (a missing key counts from zero)
MapIncr(m, k) ==
    IF k \in DOMAIN m THEN [m EXCEPT ![k] = @ + 1] ELSE m @@ (k :> 1)

EmptyMap == <<>>

(***************************************************************************)
(* The time window of both aggregation queries.                            *)
(***************************************************************************)
MarkerRequest == "/currentrelease"
StatusOK == 200

\* request_time > $1 AND request_time < $2
InWindow(t, startDate, endDate) == t > startDate /\ t < endDate

(***************************************************************************)
(* getDownloads: the request paths of the total query and of each of the   *)
(* per-artifact queries.                                                   *)
(***************************************************************************)
NumArtifacts == 40

TotalRequests ==
    { "/DB.Browser.for.SQLite-3.10.1.dmg",
      "/DB.Browser.for.SQLite-3.10.1-win32.exe",
      "/DB.Browser.for.SQLite-3.10.1-win64.exe",
      "/SQLiteDatabaseBrowserPortable_3.10.1_English.paf.exe",
      "/DB.Browser.for.SQLite-3.11.0-win32.msi",
      "/DB.Browser.for.SQLite-3.11.0-win32.zip",
      "/DB.Browser.for.SQLite-3.11.0-win64.msi",
      "/DB.Browser.for.SQLite-3.11.0-win64.zip",
      "/DB.Browser.for.SQLite-3.11.0.dmg",
      "/DB.Browser.for.SQLite-3.11.1-win32.msi",
      "/DB.Browser.for.SQLite-3.11.1-win32.zip",
      "/DB.Browser.for.SQLite-3.11.1-win64.msi",
      "/DB.Browser.for.SQLite-3.11.1-win64.zip",
      "/DB.Browser.for.SQLite-3.11.1.dmg",
      "/DB.Browser.for.SQLite-3.11.1v2.dmg",
      "/DB.Browser.for.SQLite-3.11.2-win32.msi",
      "/DB.Browser.for.SQLite-3.11.2-win32.zip",
      "/DB.Browser.for.SQLite-3.11.2-win64.msi",
      "/DB.Browser.for.SQLite-3.11.2-win64.zip",
      "/DB.Browser.for.SQLite-3.11.2.dmg",
      "/SQLiteDatabaseBrowserPortable_3.11.2_English.paf.exe",
      "/SQLiteDatabaseBrowserPortable_3.11.2_Rev_2_English.paf.exe",
      "/DB.Browser.for.SQLite-3.12.0-win32.msi",
      "/DB.Browser.for.SQLite-3.12.0-win32.zip",
      "/DB.Browser.for.SQLite-3.12.0-win64.msi",
      "/DB.Browser.for.SQLite-3.12.0-win64.zip",
      "/DB.Browser.for.SQLite-3.12.0.dmg",
      "/SQLiteDatabaseBrowserPortable_3.12.0_English.paf.exe",
      "/DB.Browser.for.SQLite-3.12.2-win32.msi",
      "/DB.Browser.for.SQLite-3.12.2-win32.zip",
      "/DB.Browser.for.SQLite-3.12.2-win64.msi",
      "/DB.Browser.for.SQLite-3.12.2-win64.zip",
      "/DB.Browser.for.SQLite-3.12.2.dmg",
      "/DB.Browser.for.SQLite-arm64-3.12.2.dmg",
      "/SQLiteDatabaseBrowserPortable_3.12.2_English.paf.exe",
      "/DB.Browser.for.SQLite-v3.13.0.dmg",
      "/DB.Browser.for.SQLite-v3.13.0-win32.msi",
      "/DB.Browser.for.SQLite-v3.13.0-win32.zip",
      "/DB.Browser.for.SQLite-v3.13.0-win64.msi",
      "/DB.Browser.for.SQLite-v3.13.0-win64.zip",
      "/DB.Browser.for.SQLite-v3.13.0-x86.64.AppImage" }

ArtifactRequests(id) ==
    CASE id = 1 -> { "/DB.Browser.for.SQLite-3.10.1.dmg" }
      [] id = 2 -> { "/DB.Browser.for.SQLite-3.10.1-win32.exe" }
      [] id = 3 -> { "/DB.Browser.for.SQLite-3.10.1-win64.exe" }
      [] id = 4 -> { "/SQLiteDatabaseBrowserPortable_3.10.1_English.paf.exe" }
      [] id = 5 -> { "/DB.Browser.for.SQLite-3.11.0-win32.msi" }
      [] id = 6 -> { "/DB.Browser.for.SQLite-3.11.0-win32.zip" }
      [] id = 7 -> { "/DB.Browser.for.SQLite-3.11.0-win64.msi" }
      [] id = 8 -> { "/DB.Browser.for.SQLite-3.11.0-win64.zip" }
      [] id = 9 -> { "/DB.Browser.for.SQLite-3.11.0.dmg" }
      [] id = 10 -> { "/DB.Browser.for.SQLite-3.11.1-win32.msi" }
      [] id = 11 -> { "/DB.Browser.for.SQLite-3.11.1-win32.zip" }
      [] id = 12 -> { "/DB.Browser.for.SQLite-3.11.1-win64.msi" }
      [] id = 13 -> { "/DB.Browser.for.SQLite-3.11.1-win64.zip" }
      [] id = 14 -> { "/DB.Browser.for.SQLite-3.11.1.dmg", "/DB.Browser.for.SQLite-3.11.1v2.dmg" }
      [] id = 15 -> { "/DB.Browser.for.SQLite-3.11.2-win32.msi" }
      [] id = 16 -> { "/DB.Browser.for.SQLite-3.11.2-win32.zip" }
      [] id = 17 -> { "/DB.Browser.for.SQLite-3.11.2-win64.msi" }
      [] id = 18 -> { "/DB.Browser.for.SQLite-3.11.2-win64.zip" }
      [] id = 19 -> { "/DB.Browser.for.SQLite-3.11.2.dmg" }
      [] id = 20 -> { "/SQLiteDatabaseBrowserPortable_3.11.2_English.paf.exe" }
      [] id = 21 -> { "/SQLiteDatabaseBrowserPortable_3.11.2_Rev_2_English.paf.exe" }
      [] id = 22 -> { "/DB.Browser.for.SQLite-3.12.0-win32.msi" }
      [] id = 23 -> { "/DB.Browser.for.SQLite-3.12.0-win32.zip" }
      [] id = 24 -> { "/DB.Browser.for.SQLite-3.12.0-win64.msi" }
      [] id = 25 -> { "/DB.Browser.for.SQLite-3.12.0-win64.zip" }
      [] id = 26 -> { "/DB.Browser.for.SQLite-3.12.0.dmg" }
      [] id = 27 -> { "/SQLiteDatabaseBrowserPortable_3.12.0_English.paf.exe" }
      [] id = 28 -> { "/DB.Browser.for.SQLite-3.12.2-win32.msi" }
      [] id = 29 -> { "/DB.Browser.for.SQLite-3.12.2-win32.zip" }
      [] id = 30 -> { "/DB.Browser.for.SQLite-3.12.2-win64.msi" }
      [] id = 31 -> { "/DB.Browser.for.SQLite-3.12.2-win64.zip" }
      [] id = 32 -> { "/DB.Browser.for.SQLite-3.12.2.dmg" }
      [] id = 33 -> { "/SQLiteDatabaseBrowserPortable_3.12.2_English.paf.exe" }
      [] id = 34 -> { "/DB.Browser.for.SQLite-arm64-3.12.2.dmg" }
      [] id = 35 -> { "/DB.Browser.for.SQLite-v3.13.0.dmg" }
      [] id = 36 -> { "/DB.Browser.for.SQLite-v3.13.0-win32.msi" }
      [] id = 37 -> { "/DB.Browser.for.SQLite-v3.13.0-win32.zip" }
      [] id = 38 -> { "/DB.Browser.for.SQLite-v3.13.0-win64.msi" }
      [] id = 39 -> { "/DB.Browser.for.SQLite-v3.13.0-win64.zip" }
      [] id = 40 -> { "/DB.Browser.for.SQLite-v3.13.0-x86.64.AppImage" }

NoFault == [kind |-> "none", at |-> 0]

\* the WHERE clause of one per-artifact query
ArtifactQueryMatches(row, id, startDate, endDate) ==
    /\ row.request \in ArtifactRequests(id)
    /\ InWindow(row.request_time, startDate, endDate)
    /\ row.status = StatusOK

\* the query for the total without its filter on the status
TotalQueryMatchesAnyStatus(row, startDate, endDate) ==
    /\ row.request \in TotalRequests
    /\ InWindow(row.request_time, startDate, endDate)

\* the WHERE clause of the query for the total
TotalQueryMatches(row, startDate, endDate) ==
    /\ row.request \in TotalRequests
    /\ InWindow(row.request_time, startDate, endDate)
    /\ row.status = StatusOK

\* getDownloads(startDate, endDate) over the log: 41 count(*) queries.  A
\* query that fails ends the process (log.Fatalf); fault.kind = "query" and
\* fault.at = k make the k-th query fail (1 is the total's).
getDownloads(log, startDate, endDate, fault) ==
    IF fault.kind = "query"
    THEN [fatal |-> TRUE, DLs |-> 0, DLsPerVersion |-> EmptyMap]
    ELSE [fatal |-> FALSE,
          DLs   |-> CountWhere(log, LAMBDA r : TotalQueryMatches(r, startDate, endDate)),
          DLsPerVersion |->
              [id \in 1..NumArtifacts |->
                  CountWhere(log, LAMBDA r : ArtifactQueryMatches(r, id, startDate, endDate))]]

(***************************************************************************)
(* getIPs.                                                                 *)
(***************************************************************************)
\* the WHERE clause of getIPs' query
IPsQueryMatches(row, startDate, endDate) ==
    /\ row.request = MarkerRequest
    /\ UserAgentMatches(row.http_user_agent)
    /\ InWindow(row.request_time, startDate, endDate)
    /\ row.status = StatusOK

\* the rows the query selects
IPsResultSet(log, startDate, endDate) ==
    SelectWhere(log, LAMBDA r : IPsQueryMatches(r, startDate, endDate))

\* the key of a row with the columns tried in the order v4, v6, strange
IPHashIPv4First(IPv4, IPv6, IPStrange) ==
    IF IPv4.String # EmptyString /\ IPv4.Valid
    THEN <<md5Sum(IPv4.String)>>
    ELSE IF IPv6.String # EmptyString /\ IPv6.Valid
    THEN <<md5Sum(IPv6.String)>>
    ELSE IF IPStrange.String # EmptyString /\ IPStrange.Valid
    THEN <<md5Sum(IPStrange.String)>>
    ELSE <<>>

\* the key of a row with the empty text hashed where no column is usable
IPHashOfNothing(IPv4, IPv6, IPStrange) ==
    IF IPStrange.String # EmptyString /\ IPStrange.Valid
    THEN <<md5Sum(IPStrange.String)>>
    ELSE IF IPv6.String # EmptyString /\ IPv6.Valid
    THEN <<md5Sum(IPv6.String)>>
    ELSE <<md5Sum(IPv4.String)>>

\* the key of a row when only Valid is tested: the empty text of a column
\* that is not NULL is hashed
IPHashOfValid(IPv4, IPv6, IPStrange) ==
    IF IPStrange.Valid
    THEN <<md5Sum(IPStrange.String)>>
    ELSE IF IPv6.Valid
    THEN <<md5Sum(IPv6.String)>>
    ELSE IF IPv4.Valid
    THEN <<md5Sum(IPv4.String)>>
    ELSE <<>>

\* the key of a row: <<hash>>, or <<>> where the code calls log.Fatalf
IPHash(IPv4, IPv6, IPStrange) ==
    IF IPStrange.String # EmptyString /\ IPStrange.Valid
    THEN <<md5Sum(IPStrange.String)>>
    ELSE IF IPv6.String # EmptyString /\ IPv6.Valid
    THEN <<md5Sum(IPv6.String)>>
    ELSE IF IPv4.String # EmptyString /\ IPv4.Valid
    THEN <<md5Sum(IPv4.String)>>
    ELSE <<>>

\* the body of "for rows.Next()" from row i on; scanErrAt is the row whose
\* rows.Scan returns an error (0: none)
RECURSIVE ScanRows(_, _, _, _, _)
ScanRows(rows, i, scanErrAt, uniqueIPs, IPsPerUserAgent) ==
    IF i > Len(rows)
    THEN [fatal |-> FALSE, err |-> FALSE,
          uniqueIPs |-> uniqueIPs, IPsPerUserAgent |-> IPsPerUserAgent]
    ELSE IF i = scanErrAt
    THEN [fatal |-> FALSE, err |-> TRUE,
          uniqueIPs |-> uniqueIPs, IPsPerUserAgent |-> IPsPerUserAgent]
    ELSE LET userAgent == ScanText(rows[i].http_user_agent)
             h == IPHash(ScanText(rows[i].client_ipv4),
                         ScanText(rows[i].client_ipv6),
                         ScanText(rows[i].client_ip_strange))
             ipMap == IF userAgent.String \in DOMAIN IPsPerUserAgent
                      THEN IPsPerUserAgent[userAgent.String]
                      ELSE EmptyMap
         IN  IF h = <<>>
             THEN [fatal |-> TRUE, err |-> FALSE,
                   uniqueIPs |-> uniqueIPs, IPsPerUserAgent |-> IPsPerUserAgent]
             ELSE ScanRows(rows, i + 1, scanErrAt,
                           MapIncr(uniqueIPs, h[1]),
                           [u \in DOMAIN IPsPerUserAgent \cup {userAgent.String} |->
                               IF u = userAgent.String
                               THEN MapIncr(ipMap, h[1])
                               ELSE IPsPerUserAgent[u]])

\* the occurrences counted by a map instead of its keys
MapOccurrences(m) ==
    Cardinality(UNION { { <<k, j>> : j \in 1..m[k] } : k \in DOMAIN m })

\* len(m) of a Go map
MapLen(m) == Cardinality(DOMAIN m)

\* getIPs(startDate, endDate), given the rows of the result set in the order
\* the server delivers them.  fault: "query" (DB.Query fails), "scan" at row
\* k (rows.Scan fails), "next" at k (rows.Next() stops after k rows on an
\* error, which the code never reads from rows.Err()).
getIPs(rows, fault) ==
    IF fault.kind = "query"
    THEN [fatal |-> FALSE, err |-> TRUE, IPs |-> 0, userAgentIPs |-> EmptyMap,
          uniqueIPs |-> EmptyMap, IPsPerUserAgent |-> EmptyMap]
    ELSE LET delivered == IF fault.kind = "next" THEN SubSeq(rows, 1, fault.at) ELSE rows
             r == ScanRows(delivered, 1, IF fault.kind = "scan" THEN fault.at ELSE 0,
                           EmptyMap, EmptyMap)
         IN  IF r.fatal \/ r.err
             THEN [fatal |-> r.fatal, err |-> r.err, IPs |-> 0, userAgentIPs |-> EmptyMap,
                   uniqueIPs |-> r.uniqueIPs, IPsPerUserAgent |-> r.IPsPerUserAgent]
             ELSE [fatal |-> FALSE, err |-> FALSE,
                   IPs |-> MapLen(r.uniqueIPs),
                   userAgentIPs |-> [u \in DOMAIN r.IPsPerUserAgent |->
                                        MapLen(r.IPsPerUserAgent[u])],
                   uniqueIPs |-> r.uniqueIPs, IPsPerUserAgent |-> r.IPsPerUserAgent]

(***************************************************************************)
(* The rollup tables and the version reference table.                      *)
(***************************************************************************)
UsersDaily == "db4s_users_daily"
UsersWeekly == "db4s_users_weekly"
UsersMonthly == "db4s_users_monthly"
DownloadsDaily == "db4s_downloads_daily"
DownloadsWeekly == "db4s_downloads_weekly"
DownloadsMonthly == "db4s_downloads_monthly"
UsersTables == {UsersDaily, UsersWeekly, UsersMonthly}
DownloadsTables == {DownloadsDaily, DownloadsWeekly, DownloadsMonthly}
TableNames == UsersTables \cup DownloadsTables

\* the category of the aggregate row: "Unique IPs" and "Total downloads"
UsersAggregateID == 1
DownloadsAggregateID == 0

\* db4s_release_info as the schema seeds it, and the last value of its sequence
SeedReleaseInfo ==
    { [release_id |-> 3, version_number |-> NotNull(Str("3.10.100"))],
      [release_id |-> 4, version_number |-> NotNull(Str("3.10.200"))],
      [release_id |-> 5, version_number |-> NotNull(Str("3.10.201"))],
      [release_id |-> 6, version_number |-> NotNull(Str("3.10.202"))],
      [release_id |-> 2, version_number |-> NotNull(Str("3.10.99"))],
      [release_id |-> 7, version_number |-> NotNull(Str("3.11.99"))],
      [release_id |-> 1, version_number |-> NotNull(Str("Unique IPs"))] }
SeedReleaseIdSeq == 8

\* the insert without its ON CONFLICT clause and without a unique index
UpsertInsertOnly(tbl, date, cat, n) ==
    tbl (+) SetToBag({[stats_date |-> date, category |-> cat, count |-> n]})

\* the insert with ON CONFLICT (stats_date): a row of the date is updated,
\* whatever its category
UpsertOnDate(tbl, date, cat, n) ==
    LET hit  == { r \in BagToSet(tbl) : r.stats_date = date }
        new  == [stats_date |-> date, category |-> cat, count |-> n]
        rest == [r \in BagToSet(tbl) \ hit |-> tbl[r]]
    IN  IF hit = {}
        THEN tbl (+) SetToBag({new})
        ELSE rest (+) [x \in {new} |-> BagCardinality([r \in hit |-> tbl[r]])]

\* INSERT INTO t (stats_date, category, count) VALUES (date, cat, n)
\*   ON CONFLICT (stats_date, category) DO UPDATE SET count = n WHERE <the same key>
\* The unique index arbitrates: a row with the same date and the same non-NULL
\* category is updated, otherwise a row is inserted (NULLs never conflict).
Upsert(tbl, date, cat, n) ==
    LET hit  == { r \in BagToSet(tbl) :
                    cat # NULL /\ r.category = cat /\ r.stats_date = date }
        new  == [stats_date |-> date, category |-> cat, count |-> n]
        rest == [r \in BagToSet(tbl) \ hit |-> tbl[r]]
    IN  IF hit = {}
        THEN tbl (+) SetToBag({new})
        ELSE rest (+) [x \in {new} |-> BagCardinality([r \in hit |-> tbl[r]])]

\* the scalar subquery (SELECT release_id FROM ver): NULL when no row of
\* db4s_release_info carries the label, an error when several do
ReleaseIDOf(refs, versionString) ==
    LET ids == { r.release_id :
                   r \in { x \in refs : x.version_number = NotNull(versionString) } }
    IN  IF ids = {} THEN [err |-> FALSE, id |-> NULL]
        ELSE IF Cardinality(ids) = 1
        THEN [err |-> FALSE, id |-> NotNull(CHOOSE i \in ids : TRUE)]
        ELSE [err |-> TRUE, id |-> NULL]

\* one write as the save operations perform it, for the record of a call
WriteRec(cat, n, perCategory) == [category |-> cat, count |-> n, perCategory |-> perCategory]

\* "for i, verCount := range IPsPerUserAgent" of the three users save
\* operations, from the i-th key of the iteration order on.  The write number
\* faultAt (1 is the aggregate write) is the DB.Exec that returns an error.
RECURSIVE UsersVersionWrites(_, _, _, _, _, _, _, _)
UsersVersionWrites(tbl, writes, refs, date, IPsPerUserAgent, order, i, faultAt) ==
    IF i > Len(order)
    THEN [table |-> tbl, err |-> FALSE, writes |-> writes]
    ELSE LET versionString == TrimPrefix(order[i])
             ver == ReleaseIDOf(refs, versionString)
         IN  IF faultAt = i + 1 \/ ver.err
             THEN [table |-> tbl, err |-> TRUE, writes |-> writes]
             ELSE UsersVersionWrites(
                      Upsert(tbl, date, ver.id, IPsPerUserAgent[order[i]]),
                      Append(writes, WriteRec(ver.id, IPsPerUserAgent[order[i]], TRUE)),
                      refs, date, IPsPerUserAgent, order, i + 1, faultAt)

\* the users save operations with the rows of the date deleted before the
\* aggregate write
SaveUsersStatsRefreshing(tbl, refs, date, count, IPsPerUserAgent, order, faultAt) ==
    IF faultAt = 1
    THEN [table |-> tbl, err |-> TRUE, writes |-> <<>>]
    ELSE UsersVersionWrites(
             Upsert([r \in { x \in BagToSet(tbl) : x.stats_date # date } |-> tbl[r]],
                    date, NotNull(UsersAggregateID), count),
             <<WriteRec(NotNull(UsersAggregateID), count, FALSE)>>,
             refs, date, IPsPerUserAgent, order, 1, faultAt)

\* the body shared by saveDailyUsersStats, saveWeeklyUsersStats and
\* saveMonthlyUsersStats, on their table
SaveUsersStats(tbl, refs, date, count, IPsPerUserAgent, order, faultAt) ==
    IF faultAt = 1
    THEN [table |-> tbl, err |-> TRUE, writes |-> <<>>]
    ELSE UsersVersionWrites(
             Upsert(tbl, date, NotNull(UsersAggregateID), count),
             <<WriteRec(NotNull(UsersAggregateID), count, FALSE)>>,
             refs, date, IPsPerUserAgent, order, 1, faultAt)

\* "for version, DLCount := range DLsPerVersion" of the three downloads
\* save operations.  The keys of the map are distinct artifact ids, so the
\* writes touch distinct rows: the table after the writes of the keys "done"
\* holds their rows as inserted or updated, and every other row as before.
UpsertAll(tbl, date, done, DLsPerVersion) ==
    LET hit  == { r \in BagToSet(tbl) :
                    r.stats_date = date /\ r.category \in {NotNull(v) : v \in done} }
        rest == [r \in BagToSet(tbl) \ hit |-> tbl[r]]
    IN  rest (+) SetToBag({ [stats_date |-> date, category |-> NotNull(v),
                             count |-> DLsPerVersion[v]] : v \in done })

\* the loop in the iteration order "order"; the write number faultAt (1 is
\* the aggregate write) is the DB.Exec that returns an error
DownloadsVersionWrites(tbl, writes, date, DLsPerVersion, order, faultAt) ==
    LET n == IF faultAt \in 2..(Len(order) + 1) THEN faultAt - 2 ELSE Len(order)
    IN  [table  |-> UpsertAll(tbl, date, {order[j] : j \in 1..n}, DLsPerVersion),
         err    |-> n < Len(order),
         writes |-> writes \o [j \in 1..n |->
                        WriteRec(NotNull(order[j]), DLsPerVersion[order[j]], TRUE)]]

\* a downloads save operation that writes the aggregate row last
SaveDownloadsStatsAggregateLast(tbl, date, count, DLsPerVersion, order, faultAt) ==
    LET r == DownloadsVersionWrites(tbl, <<>>, date, DLsPerVersion, order, faultAt)
    IN  IF r.err THEN r
        ELSE [table  |-> Upsert(r.table, date, NotNull(DownloadsAggregateID), count),
              err    |-> FALSE,
              writes |-> Append(r.writes, WriteRec(NotNull(DownloadsAggregateID), count, FALSE))]

\* the body shared by saveDailyDownloadsStats, saveWeeklyDownloadsStats and
\* saveMonthlyDownloadsStats, on their table
SaveDownloadsStats(tbl, date, count, DLsPerVersion, order, faultAt) ==
    IF faultAt = 1
    THEN [table |-> tbl, err |-> TRUE, writes |-> <<>>]
    ELSE DownloadsVersionWrites(
             Upsert(tbl, date, NotNull(DownloadsAggregateID), count),
             <<WriteRec(NotNull(DownloadsAggregateID), count, FALSE)>>,
             date, DLsPerVersion, order, faultAt)

\* a save operation that returns no error whatever its writes returned
SaveResultNoError(tbls, name, r) ==
    [tables |-> [tbls EXCEPT ![name] = r.table], err |-> FALSE, writes |-> r.writes]

\* the result of a save operation on the database: the tables after it, the
\* error it returns and the writes it performed
SaveResult(tbls, name, r) ==
    [tables |-> [tbls EXCEPT ![name] = r.table], err |-> r.err, writes |-> r.writes]

saveDailyDownloadsStats(tbls, date, count, DLsPerVersion, order, faultAt) ==
    SaveResult(tbls, DownloadsDaily,
               SaveDownloadsStats(tbls[DownloadsDaily], date, count, DLsPerVersion, order, faultAt))

saveDailyUsersStats(tbls, refs, date, count, IPsPerUserAgent, order, faultAt) ==
    SaveResult(tbls, UsersDaily,
               SaveUsersStats(tbls[UsersDaily], refs, date, count, IPsPerUserAgent, order, faultAt))

saveMonthlyDownloadsStats(tbls, date, count, DLsPerVersion, order, faultAt) ==
    SaveResult(tbls, DownloadsMonthly,
               SaveDownloadsStats(tbls[DownloadsMonthly], date, count, DLsPerVersion, order, faultAt))

saveMonthlyUsersStats(tbls, refs, date, count, IPsPerUserAgent, order, faultAt) ==
    SaveResult(tbls, UsersMonthly,
               SaveUsersStats(tbls[UsersMonthly], refs, date, count, IPsPerUserAgent, order, faultAt))

saveWeeklyDownloadsStats(tbls, date, count, DLsPerVersion, order, faultAt) ==
    SaveResult(tbls, DownloadsWeekly,
               SaveDownloadsStats(tbls[DownloadsWeekly], date, count, DLsPerVersion, order, faultAt))

\* saveWeeklyUsersStats with the table of saveDailyUsersStats left in its
\* statement
saveWeeklyUsersStatsIntoDaily(tbls, refs, date, count, IPsPerUserAgent, order, faultAt) ==
    SaveResult(tbls, UsersDaily,
               SaveUsersStats(tbls[UsersDaily], refs, date, count, IPsPerUserAgent, order, faultAt))

saveWeeklyUsersStats(tbls, refs, date, count, IPsPerUserAgent, order, faultAt) ==
    SaveResult(tbls, UsersWeekly,
               SaveUsersStats(tbls[UsersWeekly], refs, date, count, IPsPerUserAgent, order, faultAt))

(***************************************************************************)
(* updateUserAgents.                                                       *)
(***************************************************************************)
\* ORDER BY http_user_agent ASC: byte order of the strings the tokens spell
TokenOrder ==
    <<"3.10.100", "3.10.200", "3.10.201", "3.10.202", "3.10.99", "3.11.2", "3.11.99",
      "3.12.2", "AppEngine", "Mozilla", "Unique IPs", "sqlitebrowser ">>
TokenRank(tok) == CHOOSE i \in 1..Len(TokenOrder) : TokenOrder[i] = tok

RECURSIVE StringLess(_, _)
StringLess(a, b) ==
    IF b = <<>> THEN FALSE
    ELSE IF a = <<>> THEN TRUE
    ELSE IF a[1] = b[1] THEN StringLess(Tail(a), Tail(b))
    ELSE TokenRank(a[1]) < TokenRank(b[1])

RECURSIVE SortAsc(_)
SortAsc(S) ==
    IF S = {} THEN <<>>
    ELSE LET least == CHOOSE x \in S : \A y \in S \ {x} : StringLess(x, y)
         IN  <<least>> \o SortAsc(S \ {least})

\* SELECT DISTINCT (http_user_agent) ... ORDER BY http_user_agent ASC
UserAgentsResultSet(log) ==
    SortAsc({ r.http_user_agent[1] :
                r \in { x \in BagToSet(log) :
                          /\ x.request = MarkerRequest
                          /\ UserAgentMatches(x.http_user_agent) } })

\* the first loop: the labels of the rows read
RECURSIVE CollectUserAgents(_, _)
CollectUserAgents(rows, i) ==
    IF i > Len(rows) THEN <<>>
    ELSE LET userAgent == ScanText(NotNull(rows[i]))
         IN  (IF userAgent.String # EmptyString /\ userAgent.Valid
              THEN <<TrimPrefix(userAgent.String)>> ELSE <<>>)
             \o CollectUserAgents(rows, i + 1)

\* the insert without ON CONFLICT DO NOTHING and without a unique label
InsertReleaseAlways(refs, seq, j) ==
    [refs |-> refs \cup {[release_id |-> seq + 1, version_number |-> NotNull(j)]},
     seq  |-> seq + 1]

\* INSERT INTO db4s_release_info (version_number) VALUES (j) ON CONFLICT DO
\* NOTHING: release_id defaults to the next value of the sequence, which is
\* drawn before the unique indexes (on version_number, on release_id) are
\* consulted; any conflict leaves the table as it is
InsertRelease(refs, seq, j) ==
    LET id == seq + 1
        conflict == \E r \in refs : r.version_number = NotNull(j) \/ r.release_id = id
    IN  [refs |-> IF conflict THEN refs
                  ELSE refs \cup {[release_id |-> id, version_number |-> NotNull(j)]},
         seq  |-> id]

\* the second loop, from the i-th label on; execErrAt is the DB.Exec that
\* returns an error (0: none)
RECURSIVE InsertUserAgents(_, _, _, _, _)
InsertUserAgents(refs, seq, userAgents, i, execErrAt) ==
    IF i > Len(userAgents) THEN [refs |-> refs, seq |-> seq, err |-> FALSE]
    ELSE IF i = execErrAt THEN [refs |-> refs, seq |-> seq, err |-> TRUE]
    ELSE LET r == InsertRelease(refs, seq, userAgents[i])
         IN  InsertUserAgents(r.refs, r.seq, userAgents, i + 1, execErrAt)

\* updateUserAgents(ctx).  fault: "query" (DB.Query fails), "scan" at row k,
\* "next" at k (rows.Next() stops after k rows), "exec" at the k-th insert.
updateUserAgents(log, refs, seq, fault) ==
    IF fault.kind = "query" THEN [refs |-> refs, seq |-> seq, err |-> TRUE, userAgents |-> <<>>]
    ELSE LET rows == UserAgentsResultSet(log)
             delivered == IF fault.kind = "next" THEN SubSeq(rows, 1, fault.at) ELSE rows
         IN  IF fault.kind = "scan" /\ fault.at \in 1..Len(delivered)
             THEN [refs |-> refs, seq |-> seq, err |-> TRUE, userAgents |-> <<>>]
             ELSE LET userAgents == CollectUserAgents(delivered, 1)
                      r == InsertUserAgents(refs, seq, userAgents, 1,
                                            IF fault.kind = "exec" THEN fault.at ELSE 0)
                  IN  [refs |-> r.refs, seq |-> r.seq, err |-> r.err,
                       userAgents |-> userAgents]

(***************************************************************************)
(* main(): the six bucket loops.                                           *)
(***************************************************************************)
DailyUsers == "dailyUsers"
WeeklyUsers == "weeklyUsers"
MonthlyUsers == "monthlyUsers"
DailyDownloads == "dailyDownloads"
WeeklyDownloads == "weeklyDownloads"
MonthlyDownloads == "monthlyDownloads"
Reports == <<DailyUsers, WeeklyUsers, MonthlyUsers,
             DailyDownloads, WeeklyDownloads, MonthlyDownloads>>
UsersReports == {DailyUsers, WeeklyUsers, MonthlyUsers}
DownloadsReports == {DailyDownloads, WeeklyDownloads, MonthlyDownloads}
ReportIndex(r) == CHOOSE i \in 1..Len(Reports) : Reports[i] = r

\* "for date.Before(now) { date = date.AddDate(0, 0, 7) }" from 2018-01-01:
\* the first of date, date + 7 days, date + 14 days, ... that is not before
\* the clock
WeekAfter(date, clock) ==
    LET last == IF Before(date, clock) THEN ((clock - date) \div (7 * TicksPerDay)) + 1 ELSE 0
        k    == CHOOSE i \in 0..last :
                    /\ ~Before(AddDate(date, 0, 0, 7 * i), clock)
                    /\ i = 0 \/ Before(AddDate(date, 0, 0, 7 * (i - 1)), clock)
    IN  AddDate(date, 0, 0, 7 * k)

\* the search with the test "w <= wk": it stops one week later
FirstWeekFromOneWeekOn(start, wk) ==
    LET k == CHOOSE i \in 0..(wk + 1) :
                 /\ ~(ISOWeek(AddDate(start, 0, 0, 7 * i)).week <= wk)
                 /\ \A j \in 0..(i - 1) : ISOWeek(AddDate(start, 0, 0, 7 * j)).week <= wk
    IN  AddDate(start, 0, 0, 7 * k)

\* "for _, w := startDate.ISOWeek(); w < wk; { ... }" from 2018-01-01: the
\* first of start, start + 7 days, ... whose ISO week is not below wk
FirstWeekFrom(start, wk) ==
    LET k == CHOOSE i \in 0..wk :
                 /\ ~(ISOWeek(AddDate(start, 0, 0, 7 * i)).week < wk)
                 /\ \A j \in 0..(i - 1) : ISOWeek(AddDate(start, 0, 0, 7 * j)).week < wk
    IN  AddDate(start, 0, 0, 7 * k)

\* yesterday 00:00 UTC, or the first day with entries
DailyUsersStart(mode, clock) ==
    IF mode
    THEN AddDate(Date(Year(clock), Month(clock), Day(clock)), 0, 0, -1)
    ELSE Date(2018, 8, 13)

WeeklyUsersStart(mode, clock) ==
    IF mode
    THEN AddDate(WeekAfter(Date(2018, 1, 1), clock), 0, 0, -14)
    ELSE FirstWeekFrom(Date(2018, 1, 1), ISOWeek(Date(2018, 8, 13)).week)

\* the start with "-d" wound back one month from today instead of from the
\* first of this month
MonthlyUsersStartFromToday(mode, clock) ==
    IF mode
    THEN AddDate(Date(Year(clock), Month(clock), Day(clock)), 0, -1, 0)
    ELSE Date(2018, 8, 1)

MonthlyUsersStart(mode, clock) ==
    IF mode
    THEN AddDate(Date(Year(clock), Month(clock), 1), 0, -1, 0)
    ELSE Date(2018, 8, 1)

DailyDownloadsStart(mode, clock) ==
    IF mode
    THEN AddDate(Date(Year(clock), Month(clock), Day(clock)), 0, 0, -1)
    ELSE Date(2018, 8, 9)

WeeklyDownloadsStart(mode, clock) ==
    IF mode
    THEN AddDate(WeekAfter(Date(2018, 1, 1), clock), 0, 0, -14)
    ELSE FirstWeekFrom(Date(2018, 1, 1), ISOWeek(Date(2018, 8, 9)).week)

MonthlyDownloadsStart(mode, clock) ==
    IF mode
    THEN AddDate(Date(Year(clock), Month(clock), 1), 0, -1, 0)
    ELSE Date(2018, 8, 1)

\* the startDate a report begins with
FirstStart(r, mode, clock) ==
    CASE r = DailyUsers       -> DailyUsersStart(mode, clock)
      [] r = WeeklyUsers      -> WeeklyUsersStart(mode, clock)
      [] r = MonthlyUsers     -> MonthlyUsersStart(mode, clock)
      [] r = DailyDownloads   -> DailyDownloadsStart(mode, clock)
      [] r = WeeklyDownloads  -> WeeklyDownloadsStart(mode, clock)
      [] r = MonthlyDownloads -> MonthlyDownloadsStart(mode, clock)

\* the end of a bucket with a month taken as 30 days
FirstEndThirtyDays(r, start) ==
    CASE r \in {DailyUsers, DailyDownloads}     -> AddHours24(start)
      [] r \in {WeeklyUsers, WeeklyDownloads}   -> AddDate(start, 0, 0, 7)
      [] r \in {MonthlyUsers, MonthlyDownloads} -> AddDate(start, 0, 0, 30)

\* the endDate set before the loop of a report
FirstEnd(r, start) ==
    CASE r \in {DailyUsers, DailyDownloads}     -> AddHours24(start)
      [] r \in {WeeklyUsers, WeeklyDownloads}   -> AddDate(start, 0, 0, 7)
      [] r \in {MonthlyUsers, MonthlyDownloads} -> AddDate(start, 0, 1, 0)

\* the loop condition of a report
LoopCondition(r, end, clock) ==
    CASE r \in {DailyUsers, DailyDownloads}     -> Before(end, AddDate(clock, 0, 0, 1))
      [] r \in {WeeklyUsers, WeeklyDownloads}   -> Before(end, AddDate(clock, 0, 0, 7))
      [] r \in {MonthlyUsers, MonthlyDownloads} -> Before(end, AddDate(clock, 0, 1, 0))

\* a step that leaves startDate where it is
StepDateStays(r, t) == t

\* a step that leaves a day, a week or a month out
StepDateSkipping(r, t) ==
    CASE r \in {DailyUsers, DailyDownloads}     -> AddDate(t, 0, 0, 2)
      [] r \in {WeeklyUsers, WeeklyDownloads}   -> AddDate(t, 0, 0, 14)
      [] r \in {MonthlyUsers, MonthlyDownloads} -> AddDate(t, 0, 2, 0)

\* the step at the end of a loop body: startDate first, endDate from it
StepDate(r, t) ==
    CASE r \in {DailyUsers, DailyDownloads}     -> AddDate(t, 0, 0, 1)
      [] r \in {WeeklyUsers, WeeklyDownloads}   -> AddDate(t, 0, 0, 7)
      [] r \in {MonthlyUsers, MonthlyDownloads} -> AddDate(t, 0, 1, 0)

\* the save operation main() calls for a users report
SaveUsersReport(r, tbls, refs, date, count, m, order, faultAt) ==
    CASE r = DailyUsers   -> saveDailyUsersStats(tbls, refs, date, count, m, order, faultAt)
      [] r = WeeklyUsers  -> saveWeeklyUsersStats(tbls, refs, date, count, m, order, faultAt)
      [] r = MonthlyUsers -> saveMonthlyUsersStats(tbls, refs, date, count, m, order, faultAt)

\* the save operation main() calls for a downloads report
SaveDownloadsReport(r, tbls, date, count, m, order, faultAt) ==
    CASE r = DailyDownloads   -> saveDailyDownloadsStats(tbls, date, count, m, order, faultAt)
      [] r = WeeklyDownloads  -> saveWeeklyDownloadsStats(tbls, date, count, m, order, faultAt)
      [] r = MonthlyDownloads -> saveMonthlyDownloadsStats(tbls, date, count, m, order, faultAt)

\* the orders in which "range m" may visit the keys of a Go map: every order
\* of a small map; the ascending and the descending order of a larger one
\* with integer keys (its writes go to pairwise different rows)
MaxPermKeys == 3
Ascending(S) ==
    LET n == Cardinality(S)
    IN  IF S = 1..n THEN [i \in 1..n |-> i]
        ELSE [i \in 1..n |-> CHOOSE x \in S : Cardinality({y \in S : y < x}) = i - 1]
Reverse(q) == [i \in 1..Len(q) |-> q[Len(q) + 1 - i]]
RangeOrders(m) ==
    IF Cardinality(DOMAIN m) <= MaxPermKeys
    THEN Perms(DOMAIN m)
    ELSE {Ascending(DOMAIN m), Reverse(Ascending(DOMAIN m))}

(***************************************************************************)
(* The state.                                                              *)
(***************************************************************************)
VARIABLES
    download_log,       \* the access log: a bag of rows
    db4s_release_info,  \* the version reference table: a set of rows
    release_id_seq,     \* the last value drawn from its sequence
    tables,             \* the six rollup tables: name -> bag of rows
    pc,                 \* where main() is: "idle", "updateUserAgents", "loop",
                        \* "save", "done" (returned) or "exit" (ended early)
    report,             \* the report whose loop main() is in, or "none"
    dailyMode,          \* the "-d" flag of the run
    now,                \* time.Now() of the run
    startDate, endDate, \* the bucket of the loop
    numIPs, IPsPerUserAgent,   \* what getIPs returned to main()
    numDLs, DLsPerVersion,     \* what getDownloads returned to main()
    scan,               \* uniqueIPs and IPsPerUserAgent of getIPs at its end
    lastCall,           \* the last save or registrar call and what it returned
    exitCause,          \* why the run ended early
    runs,               \* the runs started so far
    faultBudget         \* the faults (database errors, kills) still to come

vars == <<download_log, db4s_release_info, release_id_seq, tables, pc, report,
          dailyMode, now, startDate, endDate, numIPs, IPsPerUserAgent, numDLs,
          DLsPerVersion, scan, lastCall, exitCause, runs, faultBudget>>

database == <<download_log, db4s_release_info, release_id_seq, tables>>
locals == <<startDate, endDate, numIPs, IPsPerUserAgent, numDLs, DLsPerVersion, scan>>

MaxFaults == 1

NoScan == [uniqueIPs |-> EmptyMap, IPsPerUserAgent |-> EmptyMap]
NoCall == [op |-> "none"]
EmptyTables == [n \in TableNames |-> EmptyBag]

\* the locals of main() before it has set them
LocalsCleared ==
    /\ startDate' = 0
    /\ endDate' = 0
    /\ numIPs' = 0
    /\ IPsPerUserAgent' = EmptyMap
    /\ numDLs' = 0
    /\ DLsPerVersion' = EmptyMap
    /\ scan' = NoScan

\* a main() that goes on to the first loop when updateUserAgents has
\* returned an error
ExitUnlessRegistrar(cause) ==
    IF cause = "updateUserAgents"
    THEN /\ pc' = "loop"
         /\ report' = Reports[1]
         /\ startDate' = FirstStart(Reports[1], dailyMode, now)
         /\ endDate' = FirstEnd(Reports[1], FirstStart(Reports[1], dailyMode, now))
         /\ exitCause' = exitCause
         /\ UNCHANGED <<numIPs, IPsPerUserAgent, numDLs, DLsPerVersion, scan>>
    ELSE /\ pc' = "exit"
         /\ report' = "none"
         /\ exitCause' = cause
         /\ LocalsCleared

\* the process ends before main() returns: log.Fatalf, or a kill
Exit(cause) ==
    /\ pc' = "exit"
    /\ report' = "none"
    /\ exitCause' = cause
    /\ LocalsCleared

(***************************************************************************)
(* The rows and clocks of the model.                                       *)
(***************************************************************************)
UA1 == <<FamilyPrefix, "3.12.2">>
UA2 == <<FamilyPrefix, "3.11.2">>
UACrawler == <<FamilyPrefix, "3.12.2", CrawlerMarker>>
UAOther == <<"Mozilla">>
IPa == Str("1.2.3.4")
IPb == Str("::1")
IPc == Str("unknown")

LogRow(request, ua, v4, v6, strange, t, status) ==
    [request |-> request, http_user_agent |-> ua, client_ipv4 |-> v4,
     client_ipv6 |-> v6, client_ip_strange |-> strange, request_time |-> t,
     status |-> status]

\* a version check and a download
CheckRow(ua, v4, v6, strange, t) == LogRow(MarkerRequest, ua, v4, v6, strange, t, StatusOK)
DownloadRow(request, t, status) == LogRow(request, NULL, NotNull(IPa), NULL, NULL, t, status)

\* the clock of the runs of the pipeline, with and without "-d": the day
\* after the first day with entries, at noon
PipelineNow == Date(2018, 8, 14) + 1
Nows(mode) == {PipelineNow}

\* the rows the log may receive while the pipeline runs
PipelineTime == Date(2018, 8, 13) + 1
PipelineRows ==
    { CheckRow(NotNull(UA1), NotNull(IPa), NULL, NULL, PipelineTime),
      CheckRow(NotNull(UA2), NULL, NotNull(IPb), NULL, PipelineTime),
      CheckRow(NotNull(UA1), NULL, NULL, NULL, PipelineTime),
      DownloadRow("/DB.Browser.for.SQLite-3.11.1v2.dmg", PipelineTime, StatusOK) }

(***************************************************************************)
(* The pipeline.                                                           *)
(***************************************************************************)
Init ==
    /\ download_log = EmptyBag
    /\ db4s_release_info = SeedReleaseInfo
    /\ release_id_seq = SeedReleaseIdSeq
    /\ tables = EmptyTables
    /\ pc = "idle"
    /\ report = "none"
    /\ dailyMode = FALSE
    /\ now = 0
    /\ startDate = 0
    /\ endDate = 0
    /\ numIPs = 0
    /\ IPsPerUserAgent = EmptyMap
    /\ numDLs = 0
    /\ DLsPerVersion = EmptyMap
    /\ scan = NoScan
    /\ lastCall = NoCall
    /\ exitCause = "none"
    /\ runs = 0
    /\ faultBudget = 0

\* the upstream service records a request.  Requests arrive while no job
\* runs and, during a job, after the registrar while the first loop runs:
\* those are the entries a job meets without having registered them.
LogAppend ==
    /\ BagCardinality(download_log) < MaxLog
    /\ pc \in {"idle", "done", "exit"} \/ (pc = "loop" /\ report = Reports[1])
    /\ \E row \in PipelineRows : download_log' = download_log (+) SetToBag({row})
    /\ UNCHANGED <<db4s_release_info, release_id_seq, tables, pc, report, dailyMode,
                   now, locals, lastCall, exitCause, runs, faultBudget>>

\* the job is started, with or without "-d"
StartRun ==
    /\ pc \in {"idle", "done", "exit"}
    /\ runs < MaxRuns
    /\ \E mode \in BOOLEAN : \E clock \in Nows(mode) :
          /\ clock >= now
          /\ dailyMode' = mode
          /\ now' = clock
    /\ pc' = "updateUserAgents"
    /\ report' = "none"
    /\ exitCause' = "none"
    /\ lastCall' = NoCall
    /\ runs' = runs + 1
    /\ LocalsCleared
    /\ UNCHANGED <<database, faultBudget>>

\* the faultBudget a call may meet: none, or one while the budget lasts
FaultsOf(S) == {NoFault} \cup (IF faultBudget > 0 THEN S ELSE {})
FaultCount(fault) == IF fault = NoFault THEN faultBudget ELSE faultBudget - 1

RegistrarFaults(n) ==
    {[kind |-> "query", at |-> 0]}
    \cup {[kind |-> k, at |-> i] : k \in {"scan", "exec"}, i \in 1..n}
    \cup {[kind |-> "next", at |-> i] : i \in 0..(n - 1)}

\* main() line 146: updateUserAgents, then the set-up of the first loop
UpdateUserAgents ==
    /\ pc = "updateUserAgents"
    /\ \E fault \in FaultsOf(RegistrarFaults(Len(UserAgentsResultSet(download_log)))) :
          LET r == updateUserAgents(download_log, db4s_release_info, release_id_seq, fault)
          IN  /\ db4s_release_info' = r.refs
              /\ release_id_seq' = r.seq
              /\ faultBudget' = FaultCount(fault)
              /\ lastCall' = [op |-> "updateUserAgents", userAgents |-> r.userAgents,
                              err |-> r.err]
              /\ IF r.err
                 THEN Exit("updateUserAgents")
                 ELSE /\ pc' = "loop"
                      /\ report' = Reports[1]
                      /\ startDate' = FirstStart(Reports[1], dailyMode, now)
                      /\ endDate' = FirstEnd(Reports[1], FirstStart(Reports[1], dailyMode, now))
                      /\ exitCause' = exitCause
                      /\ UNCHANGED <<numIPs, IPsPerUserAgent, numDLs, DLsPerVersion, scan>>
    /\ UNCHANGED <<download_log, tables, dailyMode, now, runs>>

\* the DB.Exec of a save operation of n writes that may fail: any of a
\* short one; the first, the second and the last of a long one
SaveFaults(n) ==
    {[kind |-> "exec", at |-> i] :
        i \in IF n <= MaxPermKeys + 1 THEN 1..n ELSE {1, 2, n}}

ScanFaults(n) ==
    {[kind |-> "query", at |-> 0]}
    \cup {[kind |-> "scan", at |-> i] : i \in 1..n}
    \cup {[kind |-> "next", at |-> i] : i \in 0..(n - 1)}

\* a users loop: the condition holds and getIPs is called
AggregateUsers ==
    /\ pc = "loop"
    /\ report \in UsersReports
    /\ LoopCondition(report, endDate, now)
    /\ \E rows \in BagSeqs(IPsResultSet(download_log, startDate, endDate)) :
       \E fault \in FaultsOf(ScanFaults(Len(rows))) :
          LET r == getIPs(rows, fault)
          IN  /\ faultBudget' = FaultCount(fault)
              /\ IF r.fatal THEN Exit("no client IP")
                 ELSE IF r.err THEN Exit("getIPs")
                 ELSE /\ pc' = "save"
                      /\ numIPs' = r.IPs
                      /\ IPsPerUserAgent' = r.userAgentIPs
                      /\ scan' = [uniqueIPs |-> r.uniqueIPs,
                                  IPsPerUserAgent |-> r.IPsPerUserAgent]
                      /\ UNCHANGED <<report, startDate, endDate, numDLs, DLsPerVersion,
                                     exitCause>>
    /\ UNCHANGED <<database, dailyMode, now, lastCall, runs>>

\* a downloads loop: the condition holds and getDownloads is called
AggregateDownloads ==
    /\ pc = "loop"
    /\ report \in DownloadsReports
    /\ LoopCondition(report, endDate, now)
    /\ \E fault \in FaultsOf({[kind |-> "query", at |-> 1]}) :
          LET r == getDownloads(download_log, startDate, endDate, fault)
          IN  /\ faultBudget' = FaultCount(fault)
              /\ IF r.fatal THEN Exit("getDownloads")
                 ELSE /\ pc' = "save"
                      /\ numDLs' = r.DLs
                      /\ DLsPerVersion' = r.DLsPerVersion
                      /\ UNCHANGED <<report, startDate, endDate, numIPs, IPsPerUserAgent,
                                     scan, exitCause>>
    /\ UNCHANGED <<database, dailyMode, now, lastCall, runs>>

\* the bucket is done: startDate and endDate move on
NextBucket ==
    /\ pc' = "loop"
    /\ startDate' = StepDate(report, startDate)
    /\ endDate' = StepDate(report, StepDate(report, startDate))
    /\ UNCHANGED <<report, numIPs, IPsPerUserAgent, numDLs, DLsPerVersion, scan, exitCause>>

\* a users loop: the save operation of the report, then the step
SaveUsers ==
    /\ pc = "save"
    /\ report \in UsersReports
    /\ \E order \in RangeOrders(IPsPerUserAgent) :
       \E fault \in FaultsOf(SaveFaults(Len(order) + 1)) :
          LET r == SaveUsersReport(report, tables, db4s_release_info, startDate, numIPs,
                                   IPsPerUserAgent, order, fault.at)
          IN  /\ tables' = r.tables
              /\ faultBudget' = FaultCount(fault)
              /\ lastCall' = [op |-> report, date |-> startDate, count |-> numIPs,
                              perCategory |-> IPsPerUserAgent, err |-> r.err,
                              writes |-> r.writes]
              /\ IF r.err THEN Exit("save") ELSE NextBucket
    /\ UNCHANGED <<download_log, db4s_release_info, release_id_seq, dailyMode, now, runs>>

\* a downloads loop: the save operation of the report, then the step
SaveDownloads ==
    /\ pc = "save"
    /\ report \in DownloadsReports
    /\ \E order \in RangeOrders(DLsPerVersion) :
       \E fault \in FaultsOf(SaveFaults(Len(order) + 1)) :
          LET r == SaveDownloadsReport(report, tables, startDate, numDLs, DLsPerVersion,
                                       order, fault.at)
          IN  /\ tables' = r.tables
              /\ faultBudget' = FaultCount(fault)
              /\ lastCall' = [op |-> report, date |-> startDate, count |-> numDLs,
                              perCategory |-> DLsPerVersion, err |-> r.err,
                              writes |-> r.writes]
              /\ IF r.err THEN Exit("save") ELSE NextBucket
    /\ UNCHANGED <<download_log, db4s_release_info, release_id_seq, dailyMode, now, runs>>

\* the condition of a loop fails: the next report is set up
NextReport ==
    /\ pc = "loop"
    /\ ~LoopCondition(report, endDate, now)
    /\ ReportIndex(report) < Len(Reports)
    /\ LET next == Reports[ReportIndex(report) + 1]
       IN  /\ report' = next
           /\ startDate' = FirstStart(next, dailyMode, now)
           /\ endDate' = FirstEnd(next, FirstStart(next, dailyMode, now))
    /\ UNCHANGED <<database, pc, dailyMode, now, numIPs, IPsPerUserAgent, numDLs,
                   DLsPerVersion, scan, lastCall, exitCause, runs, faultBudget>>

\* the condition of the last loop fails: DB.Close() and main() returns
Finish ==
    /\ pc = "loop"
    /\ ~LoopCondition(report, endDate, now)
    /\ ReportIndex(report) = Len(Reports)
    /\ pc' = "done"
    /\ report' = "none"
    /\ LocalsCleared
    /\ UNCHANGED <<database, dailyMode, now, lastCall, exitCause, runs, faultBudget>>

\* the process is killed between two calls
Interrupt ==
    /\ pc \in {"updateUserAgents", "loop", "save"}
    /\ faultBudget > 0
    /\ faultBudget' = faultBudget - 1
    /\ Exit("killed")
    /\ UNCHANGED <<database, dailyMode, now, lastCall, runs>>

\* the job and the upstream service, every database call succeeding
Next ==
    \/ LogAppend
    \/ StartRun
    \/ UpdateUserAgents
    \/ AggregateUsers
    \/ AggregateDownloads
    \/ SaveUsers
    \/ SaveDownloads
    \/ NextReport
    \/ Finish

Spec == Init /\ [][Next]_vars

\* the last job, with database calls that fail and a process that is killed
InitFaults ==
    /\ download_log = EmptyBag
    /\ db4s_release_info = SeedReleaseInfo
    /\ release_id_seq = SeedReleaseIdSeq
    /\ tables = EmptyTables
    /\ pc = "idle"
    /\ report = "none"
    /\ dailyMode = FALSE
    /\ now = 0
    /\ startDate = 0
    /\ endDate = 0
    /\ numIPs = 0
    /\ IPsPerUserAgent = EmptyMap
    /\ numDLs = 0
    /\ DLsPerVersion = EmptyMap
    /\ scan = NoScan
    /\ lastCall = NoCall
    /\ exitCause = "none"
    /\ runs = MaxRuns - 1
    /\ faultBudget = MaxFaults

NextFaults == Next \/ Interrupt

SpecFaults == InitFaults /\ [][NextFaults]_vars

\* one undisturbed job on a log that no longer grows, at any clock of the
\* first weeks with entries (without "-d") and of the days around the ends
\* of months and years (with "-d")
Ticks(from, to) == {from + i : i \in 0..(to - from)}
FullClocks == Ticks(Date(2018, 8, 13), Date(2018, 9, 3))
DailyClocks ==
    Ticks(Date(2018, 12, 30), Date(2019, 1, 2))
    \cup Ticks(Date(2019, 2, 27), Date(2019, 3, 2))
    \cup Ticks(Date(2024, 1, 29), Date(2024, 3, 2))
ClockRuns == ({FALSE} \X FullClocks) \cup ({TRUE} \X DailyClocks)
ClockLog ==
    SetToBag({ CheckRow(NotNull(UA1), NotNull(IPa), NULL, NULL, PipelineTime),
               DownloadRow("/DB.Browser.for.SQLite-3.11.1v2.dmg", PipelineTime, StatusOK) })

InitClock ==
    /\ download_log = ClockLog
    /\ db4s_release_info = SeedReleaseInfo
    /\ release_id_seq = SeedReleaseIdSeq
    /\ tables = EmptyTables
    /\ pc = "updateUserAgents"
    /\ report = "none"
    /\ \E run \in ClockRuns : dailyMode = run[1] /\ now = run[2]
    /\ startDate = 0
    /\ endDate = 0
    /\ numIPs = 0
    /\ IPsPerUserAgent = EmptyMap
    /\ numDLs = 0
    /\ DLsPerVersion = EmptyMap
    /\ scan = NoScan
    /\ lastCall = NoCall
    /\ exitCause = "none"
    /\ runs = MaxRuns
    /\ faultBudget = 0

NextClock ==
    \/ UpdateUserAgents
    \/ AggregateUsers
    \/ AggregateDownloads
    \/ SaveUsers
    \/ SaveDownloads
    \/ NextReport
    \/ Finish

SpecClock == InitClock /\ [][NextClock]_vars

\* the positions of a job and the reports it may be at
Positions == {"updateUserAgents", "loop", "save", "done", "exit"}

\* the job moves on: it leaves its position or goes to the next report
Advance ==
    /\ pc \notin {"done", "exit"}
    /\ pc' \in Positions
    /\ report' \in UsersReports \cup DownloadsReports \cup {"none"}

\* the same job when every database call returns: a job that has not ended
\* does not stay at one position of one report for ever. Every step of
\* NextClock changes the position or the report, and NextClock has a step
\* wherever the job has not ended, so that this is weak fairness of NextClock.
SpecClockLive == InitClock /\ [][NextClock]_vars /\ WF_<<pc, report>>(Advance)

(***************************************************************************)
(* getIPs and getDownloads on any small log.                               *)
(***************************************************************************)
\* the logs of at most MaxLog rows drawn from R
BagOfSeq(q) == [r \in {q[i] : i \in DOMAIN q} |-> Cardinality({i \in DOMAIN q : q[i] = r})]
LogsOver(R) == UNION { { BagOfSeq(q) : q \in [1..n -> R] } : n \in 0..MaxLog }

\* the first daily users bucket and the instants around it
W0 == Date(2018, 8, 13)
W1 == Date(2018, 8, 14)
WindowTimes == {W0 - 1, W0, W0 + 1, W1, W1 + 1}

\* version checks: every filling of the three address columns with NULL,
\* the empty text and an address; other addresses, user agents, instants,
\* requests and statuses
IPsRows ==
    { CheckRow(NotNull(UA1), v4, v6, strange, W0 + 1) :
        v4 \in {NULL, NotNull(EmptyString), NotNull(IPa)},
        v6 \in {NULL, NotNull(EmptyString), NotNull(IPb)},
        strange \in {NULL, NotNull(EmptyString), NotNull(IPc)} }
    \cup { CheckRow(NotNull(ua), NotNull(ip), NULL, NULL, W0 + 1) :
             ua \in {UA1, UA2}, ip \in {IPa, IPb} }
    \cup { CheckRow(ua, NotNull(IPb), NULL, NULL, W0 + 1) :
             ua \in {NULL, NotNull(UACrawler), NotNull(UAOther)} }
    \cup { CheckRow(NotNull(UA1), NotNull(IPb), NULL, NULL, t) : t \in WindowTimes }
    \cup { CheckRow(NotNull(UA1), NULL, NULL, NotNull(IPb), W0 + 1) }
    \cup { LogRow(MarkerRequest, NotNull(UA1), NotNull(IPb), NULL, NULL, W0 + 1, 404),
           LogRow("/favicon.ico", NotNull(UA1), NotNull(IPb), NULL, NULL, W0 + 1, StatusOK) }

InitIPs ==
    /\ download_log \in LogsOver(IPsRows)
    /\ db4s_release_info = SeedReleaseInfo
    /\ release_id_seq = SeedReleaseIdSeq
    /\ tables = EmptyTables
    /\ pc = "loop"
    /\ report = DailyUsers
    /\ dailyMode = FALSE
    /\ now = PipelineNow
    /\ startDate = FirstStart(DailyUsers, FALSE, PipelineNow)
    /\ endDate = FirstEnd(DailyUsers, FirstStart(DailyUsers, FALSE, PipelineNow))
    /\ numIPs = 0
    /\ IPsPerUserAgent = EmptyMap
    /\ numDLs = 0
    /\ DLsPerVersion = EmptyMap
    /\ scan = NoScan
    /\ lastCall = NoCall
    /\ exitCause = "none"
    /\ runs = MaxRuns
    /\ faultBudget = 0

NextIPs == AggregateUsers

SpecIPs == InitIPs /\ [][NextIPs]_vars

\* the first daily downloads bucket and the instants around it
D0 == Date(2018, 8, 9)
D1 == Date(2018, 8, 10)

\* downloads: every request of the list of the total, another request,
\* other instants and another status
DownloadsRows ==
    { DownloadRow(request, D0 + 1, StatusOK) : request \in TotalRequests \cup {"/favicon.ico"} }
    \cup { DownloadRow("/DB.Browser.for.SQLite-3.10.1.dmg", t, StatusOK) :
             t \in {D0 - 1, D0, D1, D1 + 1} }
    \cup { DownloadRow("/DB.Browser.for.SQLite-3.10.1.dmg", D0 + 1, 404) }

InitDownloads ==
    /\ download_log \in LogsOver(DownloadsRows)
    /\ db4s_release_info = SeedReleaseInfo
    /\ release_id_seq = SeedReleaseIdSeq
    /\ tables = EmptyTables
    /\ pc = "loop"
    /\ report = DailyDownloads
    /\ dailyMode = FALSE
    /\ now = PipelineNow
    /\ startDate = FirstStart(DailyDownloads, FALSE, PipelineNow)
    /\ endDate = FirstEnd(DailyDownloads, FirstStart(DailyDownloads, FALSE, PipelineNow))
    /\ numIPs = 0
    /\ IPsPerUserAgent = EmptyMap
    /\ numDLs = 0
    /\ DLsPerVersion = EmptyMap
    /\ scan = NoScan
    /\ lastCall = NoCall
    /\ exitCause = "none"
    /\ runs = MaxRuns
    /\ faultBudget = 0

NextDownloads == AggregateDownloads

SpecDownloads == InitDownloads /\ [][NextDownloads]_vars

(***************************************************************************)
(* The six save operations, called one after another.                      *)
(***************************************************************************)
MaxCalls == 2

UASeed == <<FamilyPrefix, "3.10.99">>
UAAggregate == <<FamilyPrefix, "Unique IPs">>

\* the inputs of the calls
SaveDates == {W0, W1}
UsersInputs ==
    { EmptyMap, UASeed :> 1, UASeed :> MaxCount, UA1 :> 1, UAAggregate :> 1,
      (UASeed :> 1) @@ (UA1 :> MaxCount), (UASeed :> MaxCount) @@ (UAAggregate :> 1) }
DownloadsInputs ==
    { [id \in 1..NumArtifacts |-> 0],
      [id \in 1..NumArtifacts |-> IF id = 1 THEN 1 ELSE 0],
      [id \in 1..NumArtifacts |-> IF id = 1 THEN MaxCount ELSE IF id = 14 THEN 1 ELSE 0] }

InitSave ==
    /\ download_log = EmptyBag
    /\ db4s_release_info = SeedReleaseInfo
    /\ release_id_seq = SeedReleaseIdSeq
    /\ tables = EmptyTables
    /\ pc = "call"
    /\ report = "none"
    /\ dailyMode = FALSE
    /\ now = PipelineNow
    /\ startDate = 0
    /\ endDate = 0
    /\ numIPs = 0
    /\ IPsPerUserAgent = EmptyMap
    /\ numDLs = 0
    /\ DLsPerVersion = EmptyMap
    /\ scan = NoScan
    /\ lastCall = NoCall
    /\ exitCause = "none"
    /\ runs = 0
    /\ faultBudget = 0

\* a call of the users save operation of report r
CallUsers(r) ==
    /\ pc = "call"
    /\ runs < MaxCalls
    /\ \E date \in SaveDates, count \in 1..MaxCount, m \in UsersInputs :
       \E order \in RangeOrders(m) :
       \E fault \in FaultsOf(SaveFaults(Len(order) + 1)) :
          LET r2 == SaveUsersReport(r, tables, db4s_release_info, date, count, m, order,
                                    fault.at)
          IN  /\ tables' = r2.tables
              /\ faultBudget' = FaultCount(fault)
              /\ lastCall' = [op |-> r, date |-> date, count |-> count,
                              perCategory |-> m, err |-> r2.err, writes |-> r2.writes]
    /\ runs' = runs + 1
    /\ UNCHANGED <<download_log, db4s_release_info, release_id_seq, pc, report, dailyMode,
                   now, locals, exitCause>>

\* a call of the downloads save operation of report r
CallDownloads(r) ==
    /\ pc = "call"
    /\ runs < MaxCalls
    /\ \E date \in SaveDates, count \in 1..MaxCount, m \in DownloadsInputs :
       \E order \in RangeOrders(m) :
       \E fault \in FaultsOf(SaveFaults(Len(order) + 1)) :
          LET r2 == SaveDownloadsReport(r, tables, date, count, m, order, fault.at)
          IN  /\ tables' = r2.tables
              /\ faultBudget' = FaultCount(fault)
              /\ lastCall' = [op |-> r, date |-> date, count |-> count,
                              perCategory |-> m, err |-> r2.err, writes |-> r2.writes]
    /\ runs' = runs + 1
    /\ UNCHANGED <<download_log, db4s_release_info, release_id_seq, pc, report, dailyMode,
                   now, locals, exitCause>>

CallSaveDailyUsersStats == CallUsers(DailyUsers)
CallSaveWeeklyUsersStats == CallUsers(WeeklyUsers)
CallSaveMonthlyUsersStats == CallUsers(MonthlyUsers)
CallSaveDailyDownloadsStats == CallDownloads(DailyDownloads)
CallSaveWeeklyDownloadsStats == CallDownloads(WeeklyDownloads)
CallSaveMonthlyDownloadsStats == CallDownloads(MonthlyDownloads)

NextSave ==
    \/ CallSaveDailyUsersStats
    \/ CallSaveWeeklyUsersStats
    \/ CallSaveMonthlyUsersStats
    \/ CallSaveDailyDownloadsStats
    \/ CallSaveWeeklyDownloadsStats
    \/ CallSaveMonthlyDownloadsStats

SpecSave == InitSave /\ [][NextSave]_vars

(***************************************************************************)
(* Jobs run again on a log that does not change, at one clock.             *)
(***************************************************************************)
\* the logs of the reruns: two clients under two versions and a download;
\* one client
RerunLogs ==
    { SetToBag({ CheckRow(NotNull(UA1), NotNull(IPa), NULL, NULL, PipelineTime),
                 CheckRow(NotNull(UA2), NULL, NotNull(IPb), NULL, PipelineTime),
                 DownloadRow("/DB.Browser.for.SQLite-3.11.1v2.dmg", PipelineTime, StatusOK) }),
      SetToBag({ CheckRow(NotNull(UA1), NotNull(IPa), NULL, NULL, PipelineTime) }) }

InitRerun ==
    /\ download_log \in RerunLogs
    /\ db4s_release_info = SeedReleaseInfo
    /\ release_id_seq = SeedReleaseIdSeq
    /\ tables = EmptyTables
    /\ pc = "idle"
    /\ report = "none"
    /\ dailyMode = FALSE
    /\ now = 0
    /\ startDate = 0
    /\ endDate = 0
    /\ numIPs = 0
    /\ IPsPerUserAgent = EmptyMap
    /\ numDLs = 0
    /\ DLsPerVersion = EmptyMap
    /\ scan = NoScan
    /\ lastCall = NoCall
    /\ exitCause = "none"
    /\ runs = 0
    /\ faultBudget = MaxFaults

\* a call has met a fault and the job goes on: rows.Next() has stopped early
Survived == faultBudget' < faultBudget /\ pc' # "exit"

\* the job is started again with the flag of the job before it
StartRunAgain == StartRun /\ (runs > 0 => dailyMode' = dailyMode)

\* the calls that read rows, with the faults that end the job only
UpdateUserAgentsOrEnd == UpdateUserAgents /\ ~Survived
AggregateUsersOrEnd == AggregateUsers /\ ~Survived

NextRerun ==
    \/ StartRunAgain
    \/ UpdateUserAgentsOrEnd
    \/ AggregateUsersOrEnd
    \/ AggregateDownloads
    \/ SaveUsers
    \/ SaveDownloads
    \/ NextReport
    \/ Finish
    \/ Interrupt

SpecRerun == InitRerun /\ [][NextRerun]_vars

(***************************************************************************)
(* The rows-affected checks of the save operations.                        *)
(***************************************************************************)
\* commandTag.RowsAffected() is 1 for every write of a call but the write
\* number rowsAt, for which the server reports rowsAffected (rowsAt = 0: for
\* none)
MaxRows == 2
NumRowsOf(i, rowsAt, rowsAffected) == IF i = rowsAt THEN rowsAffected ELSE 1

\* "if numRows != 1 { log.Printf(...) }" after the aggregate write
AggregateWriteWarns(numRows) == numRows # 1

\* "if numRows > 1 { log.Printf(...) }" after a per-category write
CategoryWriteWarns(numRows) == numRows > 1

\* the writes of a call after which it logs a warning
Warnings(writes, rowsAt, rowsAffected) ==
    [i \in 1..Len(writes) |->
        IF writes[i].perCategory
        THEN CategoryWriteWarns(NumRowsOf(i, rowsAt, rowsAffected))
        ELSE AggregateWriteWarns(NumRowsOf(i, rowsAt, rowsAffected))]

\* the writes of a call of n writes whose row count the model varies
RowsAts(n) == {0} \cup (IF n <= MaxPermKeys + 1 THEN 1..n ELSE {1, 2, n})

InitWarn ==
    /\ download_log = EmptyBag
    /\ db4s_release_info = SeedReleaseInfo
    /\ release_id_seq = SeedReleaseIdSeq
    /\ tables = EmptyTables
    /\ pc = "call"
    /\ report = "none"
    /\ dailyMode = FALSE
    /\ now = PipelineNow
    /\ startDate = 0
    /\ endDate = 0
    /\ numIPs = 0
    /\ IPsPerUserAgent = EmptyMap
    /\ numDLs = 0
    /\ DLsPerVersion = EmptyMap
    /\ scan = NoScan
    /\ lastCall = NoCall
    /\ exitCause = "none"
    /\ runs = 0
    /\ faultBudget = 0

\* a call of a users save operation, every DB.Exec succeeding
CallUsersCounted ==
    /\ pc = "call"
    /\ runs = 0
    /\ \E r \in UsersReports, date \in SaveDates, count \in 1..MaxCount, m \in UsersInputs :
       \E order \in RangeOrders(m) :
       \E rowsAt \in RowsAts(Len(order) + 1), rowsAffected \in 0..MaxRows :
          LET r2 == SaveUsersReport(r, tables, db4s_release_info, date, count, m, order, 0)
          IN  /\ tables' = r2.tables
              /\ lastCall' = [op |-> r, date |-> date, count |-> count,
                              perCategory |-> m, err |-> r2.err, writes |-> r2.writes,
                              rowsAt |-> rowsAt, rowsAffected |-> rowsAffected,
                              warnings |-> Warnings(r2.writes, rowsAt, rowsAffected)]
    /\ runs' = runs + 1
    /\ UNCHANGED <<download_log, db4s_release_info, release_id_seq, pc, report, dailyMode,
                   now, locals, exitCause, faultBudget>>

\* a call of a downloads save operation, every DB.Exec succeeding
CallDownloadsCounted ==
    /\ pc = "call"
    /\ runs = 0
    /\ \E r \in DownloadsReports, date \in SaveDates, count \in 1..MaxCount,
          m \in DownloadsInputs :
       \E order \in RangeOrders(m) :
       \E rowsAt \in RowsAts(Len(order) + 1), rowsAffected \in 0..MaxRows :
          LET r2 == SaveDownloadsReport(r, tables, date, count, m, order, 0)
          IN  /\ tables' = r2.tables
              /\ lastCall' = [op |-> r, date |-> date, count |-> count,
                              perCategory |-> m, err |-> r2.err, writes |-> r2.writes,
                              rowsAt |-> rowsAt, rowsAffected |-> rowsAffected,
                              warnings |-> Warnings(r2.writes, rowsAt, rowsAffected)]
    /\ runs' = runs + 1
    /\ UNCHANGED <<download_log, db4s_release_info, release_id_seq, pc, report, dailyMode,
                   now, locals, exitCause, faultBudget>>

NextWarn ==
    \/ CallUsersCounted
    \/ CallDownloadsCounted

SpecWarn == InitWarn /\ [][NextWarn]_vars

(***************************************************************************)
(* The claims.                                                             *)
(***************************************************************************)
\* a step that calls a save operation with the input of the call before it,
\* both calls returning no error
SameCallAgain ==
    /\ runs' = runs + 1
    /\ lastCall.op \in UsersReports \cup DownloadsReports
    /\ ~lastCall.err
    /\ lastCall'.op = lastCall.op
    /\ lastCall'.date = lastCall.date
    /\ lastCall'.count = lastCall.count
    /\ lastCall'.perCategory = lastCall.perCategory
    /\ ~lastCall'.err

\* C1: for each of the six save operations, saving the same (date, total,
\* perCategory) a second time right after the first leaves the rollup tables
\* as the first call left them.
C1_SaveTwiceIsSaveOnce == [][SameCallAgain => tables' = tables]_vars

\* the rows of a table that carry the key of row r, counted with their copies
RowsWithKeyOf(tbl, r) ==
    BagCardinality([x \in { y \in BagToSet(tbl) :
                               y.stats_date = r.stats_date /\ y.category = r.category }
                      |-> tbl[x]])

\* C2: in every reachable state each of the six rollup tables holds at most
\* one row per (stats_date, category), the rows without a release id
\* included.
C2_OneRowPerDateAndCategory ==
    \A n \in TableNames : \A r \in BagToSet(tables[n]) : RowsWithKeyOf(tables[n], r) = 1

\* the client identity of a row as getIPs derives it
ClientIdentity(row) ==
    IPHash(ScanText(row.client_ipv4), ScanText(row.client_ipv6),
           ScanText(row.client_ip_strange))

\* the rows of the log that qualify for the window of the bucket
Qualifying == BagToSet(IPsResultSet(download_log, startDate, endDate))

\* getIPs has returned to the loop of a users report
ScanDone == pc = "save" /\ report \in UsersReports

\* C3: the total getIPs returns is the number of distinct client identities
\* among the qualifying rows of the window, and the count of each user agent
\* is the number of distinct client identities among its qualifying rows.
C3_CountsAreDistinctClients ==
    ScanDone =>
        /\ numIPs = Cardinality({ ClientIdentity(r) : r \in Qualifying })
        /\ DOMAIN IPsPerUserAgent = { r.http_user_agent[1] : r \in Qualifying }
        /\ \A ua \in DOMAIN IPsPerUserAgent :
              IPsPerUserAgent[ua] =
                  Cardinality({ ClientIdentity(r) :
                                  r \in { x \in Qualifying : x.http_user_agent[1] = ua } })

\* a client has hit the marker path twice under one version and counts once
C3_Witness ==
    /\ ScanDone
    /\ \E r \in Qualifying : download_log[r] = 2
    /\ numIPs = 1
    /\ \A ua \in DOMAIN IPsPerUserAgent : IPsPerUserAgent[ua] = 1

\* the first column of a row in the order strange, v6, v4 that Set accepts
FirstSet(row, Set(_)) ==
    IF Set(row.client_ip_strange) THEN row.client_ip_strange[1]
    ELSE IF Set(row.client_ipv6) THEN row.client_ipv6[1]
    ELSE IF Set(row.client_ipv4) THEN row.client_ipv4[1]
    ELSE EmptyString

IsNotNull(col) == col # NULL
IsUsable(col) == col # NULL /\ col[1] # EmptyString

\* C4 as stated: the identity of every qualifying row comes from
\* client_ip_strange when that column is not NULL, else from client_ipv6 when
\* that is not NULL, else from client_ipv4.
C4_FirstNonNullColumn ==
    ScanDone =>
        DOMAIN scan.uniqueIPs = { md5Sum(FirstSet(r, IsNotNull)) : r \in Qualifying }

\* C4 as amended: the identity of every qualifying row comes from
\* client_ip_strange when that column is neither NULL nor the empty text,
\* else from client_ipv6 when that is neither, else from client_ipv4.
C4_FirstUsableColumn ==
    ScanDone =>
        DOMAIN scan.uniqueIPs = { md5Sum(FirstSet(r, IsUsable)) : r \in Qualifying }

\* a row with ip_strange and ipv4 both set has been keyed by ip_strange
C4_Witness ==
    /\ ScanDone
    /\ \E r \in Qualifying :
          /\ IsUsable(r.client_ip_strange) /\ IsUsable(r.client_ipv4)
          /\ r.client_ip_strange # r.client_ipv4
          /\ md5Sum(r.client_ip_strange[1]) \in DOMAIN scan.uniqueIPs
          /\ md5Sum(r.client_ipv4[1]) \notin DOMAIN scan.uniqueIPs

\* the sum of the counts of a map
SumOf(m) == Cardinality(UNION { { <<k, j>> : j \in 1..m[k] } : k \in DOMAIN m })

\* getDownloads has returned to the loop of a downloads report
CountDone == pc = "save" /\ report \in DownloadsReports

\* C5: the total getDownloads returns is the sum of the 40 per-artifact
\* counts it returns for the window; every request of the list of the total
\* is counted under exactly one artifact, and every request counted under an
\* artifact is in the list of the total.
C5_TotalIsSumOfArtifacts ==
    /\ CountDone => numDLs = SumOf(DLsPerVersion)
    /\ \A request \in TotalRequests :
          Cardinality({ id \in 1..NumArtifacts : request \in ArtifactRequests(id) }) = 1
    /\ \A id \in 1..NumArtifacts : ArtifactRequests(id) \subseteq TotalRequests

\* the two aliases of artifact 14 were downloaded once each, nothing else
C5_Witness ==
    /\ CountDone
    /\ Cardinality(BagToSet(download_log)) = 2
    /\ DLsPerVersion[14] = 2
    /\ numDLs = 2

\* C6: the version reference table never holds two rows with one label; a
\* row once present stays as it is; and a registrar that finds every label
\* of the log present leaves the table unchanged.
C6_NoTwoRowsWithOneLabel ==
    \A r1, r2 \in db4s_release_info : r1.version_number = r2.version_number => r1 = r2

C6_RowsStay ==
    /\ db4s_release_info \subseteq db4s_release_info'
    /\ ( /\ pc = "updateUserAgents"
         /\ \A ua \in { r.http_user_agent[1] :
                          r \in { x \in BagToSet(download_log) :
                                    /\ x.request = MarkerRequest
                                    /\ UserAgentMatches(x.http_user_agent) } } :
               \E r \in db4s_release_info : r.version_number = NotNull(TrimPrefix(ua)) )
      => db4s_release_info' = db4s_release_info

C6_LabelsAreStable == []C6_NoTwoRowsWithOneLabel /\ [][C6_RowsStay]_vars

\* the registrar of a second job has submitted a label that the first job
\* registered: the sequence has moved on, the table has no new row
C6_Witness ==
    /\ runs = 2
    /\ lastCall.op = "updateUserAgents"
    /\ ~lastCall.err
    /\ \E i \in 1..Len(lastCall.userAgents) :
          \E r \in db4s_release_info :
             /\ r.version_number = NotNull(lastCall.userAgents[i])
             /\ r.release_id = SeedReleaseIdSeq + 1
    /\ release_id_seq > SeedReleaseIdSeq + Cardinality(db4s_release_info \ SeedReleaseInfo)

\* the days of a month of the calendar
DaysIn(y, m) ==
    IF m = 2
    THEN (IF (y % 4 = 0 /\ y % 100 # 0) \/ y % 400 = 0 THEN 29 ELSE 28)
    ELSE IF m \in {4, 6, 9, 11} THEN 30 ELSE 31

\* a bucket of a monthly report is being aggregated or saved
MonthlyBucket ==
    /\ report \in {MonthlyUsers, MonthlyDownloads}
    /\ pc = "save" \/ (pc = "loop" /\ LoopCondition(report, endDate, now))

\* C7: every monthly bucket starts at 00:00 UTC on the first day of a month
\* and ends at 00:00 UTC on the first day of the following month, so it is as
\* long as that month (28, 29, 30 or 31 days).
C7_MonthlyBucketsAreCalendarMonths ==
    MonthlyBucket =>
        /\ Day(startDate) = 1 /\ TimeOfDay(startDate) = 0
        /\ Day(endDate) = 1 /\ TimeOfDay(endDate) = 0
        /\ Month(endDate) = (Month(startDate) % 12) + 1
        /\ Year(endDate) = Year(startDate) + (IF Month(startDate) = 12 THEN 1 ELSE 0)
        /\ endDate - startDate = DaysIn(Year(startDate), Month(startDate)) * TicksPerDay

\* the buckets of January and of February 2024, of 31 and of 29 days
C7_Witness ==
    /\ pc = "save"
    /\ report = MonthlyUsers
    /\ startDate = Date(2024, 2, 1)
    /\ endDate = Date(2024, 3, 1)
    /\ endDate - startDate = 29 * TicksPerDay
    /\ \E r \in BagToSet(tables[UsersMonthly]) : r.stats_date = Date(2024, 1, 1)

\* the rows of the log that qualify for the half-open window [start, end)
QualifyingHalfOpen ==
    { r \in BagToSet(download_log) :
        /\ r.request = MarkerRequest
        /\ UserAgentMatches(r.http_user_agent)
        /\ r.status = StatusOK
        /\ startDate <= r.request_time /\ r.request_time < endDate }

\* C8: the window is half-open: a qualifying row at the start of the window
\* is counted in it, a row at its end is not.
C8_WindowIsHalfOpen ==
    ScanDone => numIPs = Cardinality({ ClientIdentity(r) : r \in QualifyingHalfOpen })

\* the label of user agent ua has no row in the version reference table
Unregistered(ua) ==
    \A r \in db4s_release_info : r.version_number # NotNull(TrimPrefix(ua))

\* C9: a users save operation given an entry whose label has no row in the
\* version reference table returns an error and writes no row for the entry.
C9_UnregisteredLabelFails ==
    ( /\ lastCall.op \in UsersReports
      /\ \E ua \in DOMAIN lastCall.perCategory : Unregistered(ua) )
    => /\ lastCall.err
       /\ \A i \in 1..Len(lastCall.writes) : lastCall.writes[i].category # NULL

\* a column that holds no usable address
NotUsable(col) == col = NULL \/ col[1] = EmptyString

\* the scan of the bucket at hand will meet a row without a usable address
BadRowInBucket ==
    /\ pc = "loop"
    /\ report \in UsersReports
    /\ LoopCondition(report, endDate, now)
    /\ \E r \in Qualifying :
          /\ NotUsable(r.client_ipv4)
          /\ NotUsable(r.client_ipv6)
          /\ NotUsable(r.client_ip_strange)

\* C10: when the scan of a users bucket meets a qualifying row without a
\* usable address, the job ends there; the rollup tables stay as they are,
\* and the job that has ended writes nothing more.
C10_Step ==
    /\ (BadRowInBucket /\ pc' # pc)
          => (pc' = "exit" /\ exitCause' = "no client IP" /\ tables' = tables)
    /\ (pc = "exit" /\ exitCause = "no client IP")
          => (tables' = tables /\ (pc' = "exit" \/ runs' = runs + 1))

C10_BadRowEndsTheJob == [][C10_Step]_vars

\* a job has ended on such a row after it has saved a bucket
C10_Witness ==
    /\ pc = "exit"
    /\ exitCause = "no client IP"
    /\ runs = 1
    /\ tables[UsersDaily] # EmptyBag
    /\ tables[UsersWeekly] = EmptyBag

\* a call of getIPs or getDownloads meets a failing read
ReadFails == pc = "loop" /\ faultBudget' < faultBudget /\ exitCause' # "killed"

\* a save operation of a users report writes
UsersWrite == pc = "save" /\ report \in UsersReports /\ tables' # tables

\* C11: when a read of the log fails while a bucket is aggregated (at the
\* query, at the scan of a row, or while the rows are iterated), the job ends
\* there with the rollup tables as they are; and what a users save operation
\* writes as the total of a bucket is the number of distinct clients of all
\* the qualifying rows of the bucket, never that of a part of them.
C11_Step ==
    /\ ReadFails => (pc' = "exit" /\ tables' = tables)
    /\ UsersWrite =>
          lastCall'.count = Cardinality({ ClientIdentity(r) : r \in Qualifying })

C11_FailedReadWritesNothing == [][C11_Step]_vars

\* the rollup table a report writes
ReportTable(r) ==
    CASE r = DailyUsers       -> UsersDaily
      [] r = WeeklyUsers      -> UsersWeekly
      [] r = MonthlyUsers     -> UsersMonthly
      [] r = DailyDownloads   -> DownloadsDaily
      [] r = WeeklyDownloads  -> DownloadsWeekly
      [] r = MonthlyDownloads -> DownloadsMonthly

\* an upsert of the save operation main() calls returns an error
WriteFails == pc = "save" /\ faultBudget' < faultBudget /\ exitCause' # "killed"

\* the rows of a table for a date
RowsOn(tbl, date) == { r \in BagToSet(tbl) : r.stats_date = date }

\* C12: when an upsert of a save operation returns an error, the save
\* operation returns the error having performed the writes before it and
\* none after it, the job ends there, and the ended job writes nothing more
\* (no further category, bucket or report).
C12_Step ==
    /\ WriteFails =>
          /\ lastCall'.err
          /\ pc' = "exit" /\ exitCause' = "save"
          /\ Len(lastCall'.writes) < 1 + Cardinality(DOMAIN lastCall'.perCategory)
          /\ \A n \in TableNames \ {ReportTable(report)} : tables'[n] = tables[n]
          /\ RowsOn(tables'[ReportTable(report)], startDate) =
                { [stats_date |-> startDate, category |-> lastCall'.writes[i].category,
                   count |-> lastCall'.writes[i].count] :
                     i \in 1..Len(lastCall'.writes) }
    /\ pc = "exit" => (pc' = "exit" /\ tables' = tables)

C12_FailedWriteEndsTheJob == [][C12_Step]_vars

\* a save operation has failed at a per-category write: the aggregate row of
\* the bucket is there, and the job has ended
C12_Witness ==
    /\ pc = "exit"
    /\ exitCause = "save"
    /\ lastCall.op \in DownloadsReports
    /\ lastCall.err
    /\ Len(lastCall.writes) = 1
    /\ \E r \in BagToSet(tables[ReportTable(lastCall.op)]) :
          r.stats_date = lastCall.date /\ r.category = NotNull(DownloadsAggregateID)

\* the category a save operation writes the entry k of its map under
CategoryOf(op, k) ==
    IF op \in UsersReports
    THEN ReleaseIDOf(db4s_release_info, TrimPrefix(k)).id
    ELSE NotNull(k)

\* the category of the aggregate row of a report
AggregateOf(op) ==
    IF op \in UsersReports THEN NotNull(UsersAggregateID) ELSE NotNull(DownloadsAggregateID)

\* the last call was a save operation that returned no error, every label of
\* its map having a row in the version reference table
SavedRegistered ==
    /\ lastCall.op \in UsersReports \cup DownloadsReports
    /\ ~lastCall.err
    /\ lastCall.op \in UsersReports =>
          \A ua \in DOMAIN lastCall.perCategory : ~Unregistered(ua)

\* C13: after a save operation has returned success for (date, total,
\* perCategory) with every label registered, its table holds for the date
\* the aggregate row with count = total and, for every entry of perCategory,
\* a row with the count of the entry, whatever the table held before.
C13_SavedCountsAreStored ==
    SavedRegistered =>
        LET tbl == BagToSet(tables[ReportTable(lastCall.op)])
        IN  /\ [stats_date |-> lastCall.date, category |-> AggregateOf(lastCall.op),
                count |-> lastCall.count] \in tbl
            /\ \A k \in DOMAIN lastCall.perCategory :
                  [stats_date |-> lastCall.date, category |-> CategoryOf(lastCall.op, k),
                   count |-> lastCall.perCategory[k]] \in tbl

\* C18: the aggregate category (1 in the users tables, 0 in the downloads
\* tables) is written by the aggregate write of a save operation only: no
\* per-version and no per-artifact write carries it.
C18_AggregateIDIsReserved ==
    lastCall.op \in UsersReports \cup DownloadsReports =>
        \A i \in 1..Len(lastCall.writes) :
            lastCall.writes[i].perCategory =>
                lastCall.writes[i].category # AggregateOf(lastCall.op)

\* the k-th bucket start of a report after t
StepN(r, t, k) ==
    CASE r \in {DailyUsers, DailyDownloads}     -> AddDate(t, 0, 0, k)
      [] r \in {WeeklyUsers, WeeklyDownloads}   -> AddDate(t, 0, 0, 7 * k)
      [] r \in {MonthlyUsers, MonthlyDownloads} -> AddDate(t, 0, k, 0)

\* the starts of the buckets the loop of a report goes through
MaxBuckets == 30
Buckets(r, mode, clock) ==
    { s \in { StepN(r, FirstStart(r, mode, clock), k) : k \in 0..(MaxBuckets - 1) } :
        LoopCondition(r, StepDate(r, s), clock) }

\* the version reference table one undisturbed registrar makes of the seed
UndisturbedRefs(log) ==
    updateUserAgents(log, SeedReleaseInfo, SeedReleaseIdSeq, NoFault).refs

\* the rows one undisturbed job on the empty tables leaves in the table of a
\* report
UndisturbedRows(r, log, mode, clock) ==
    UNION { IF r \in UsersReports
            THEN LET rows  == CHOOSE q \in BagSeqs(IPsResultSet(log, s, StepDate(r, s))) : TRUE
                     g     == getIPs(rows, NoFault)
                     order == CHOOSE o \in RangeOrders(g.userAgentIPs) : TRUE
                 IN  BagToSet(SaveUsersStats(EmptyBag, UndisturbedRefs(log), s, g.IPs,
                                             g.userAgentIPs, order, 0).table)
            ELSE LET g     == getDownloads(log, s, StepDate(r, s), NoFault)
                     order == CHOOSE o \in RangeOrders(g.DLsPerVersion) : TRUE
                 IN  BagToSet(SaveDownloadsStats(EmptyBag, s, g.DLs, g.DLsPerVersion,
                                                 order, 0).table)
          : s \in Buckets(r, mode, clock) }

\* the label a category stands for in a version reference table
LabelOf(refs, cat) ==
    LET m == { x \in refs : cat # NULL /\ x.release_id = cat[1] }
    IN  IF m = {} THEN NULL ELSE (CHOOSE x \in m : TRUE).version_number

\* the rows of a users table with the label in the place of the release id
ByLabel(rows, refs) ==
    { [stats_date |-> r.stats_date, label |-> LabelOf(refs, r.category), count |-> r.count] :
        r \in rows }

\* a job has run to its end
RunComplete == pc = "done"

\* C14 as stated: on a log that does not change and at one clock, a job that
\* runs to its end, be it the first, one after an interrupted job or one after
\* a complete job, leaves in the six rollup tables the rows one undisturbed
\* job leaves there.
C14_RerunGivesTheSameRows ==
    RunComplete =>
        \A r \in UsersReports \cup DownloadsReports :
            tables[ReportTable(r)] = SetToBag(UndisturbedRows(r, download_log, dailyMode, now))

\* C14 as amended: the same, the rows of the users tables being read with the
\* version label their release id stands for; the downloads tables hold the
\* very rows of an undisturbed job.
C14_RerunGivesTheSameCounts ==
    RunComplete =>
        /\ \A r \in DownloadsReports :
              tables[ReportTable(r)] = SetToBag(UndisturbedRows(r, download_log, dailyMode, now))
        /\ \A r \in UsersReports :
              LET rows == BagToSet(tables[ReportTable(r)])
              IN  /\ \A x \in rows : tables[ReportTable(r)][x] = 1
                  /\ Cardinality(ByLabel(rows, db4s_release_info)) = Cardinality(rows)
                  /\ ByLabel(rows, db4s_release_info) =
                        ByLabel(UndisturbedRows(r, download_log, dailyMode, now),
                                UndisturbedRefs(download_log))

\* a job has run to its end after a job that was interrupted between the two
\* inserts of its registrar: the second label has the third id drawn
C14_Witness ==
    /\ RunComplete
    /\ runs = 2
    /\ faultBudget = 0
    /\ release_id_seq = SeedReleaseIdSeq + 3
    /\ \E r \in BagToSet(tables[UsersDaily]) :
          r.category = NotNull(SeedReleaseIdSeq + 3) /\ r.count = 1

\* the start of the bucket of a report that holds the instant t: the day of
\* t, its week counted in sevens of days from Monday 2018-01-01, its month
CurrentBucket(r, t) ==
    CASE r \in {DailyUsers, DailyDownloads}     -> Date(Year(t), Month(t), Day(t))
      [] r \in {WeeklyUsers, WeeklyDownloads}   ->
            Date(2018, 1, 1)
              + (7 * TicksPerDay) * ((t - Date(2018, 1, 1)) \div (7 * TicksPerDay))
      [] r \in {MonthlyUsers, MonthlyDownloads} -> Date(Year(t), Month(t), 1)

\* the start of the bucket before it
PreviousBucket(r, t) ==
    CASE r \in {DailyUsers, DailyDownloads}     -> CurrentBucket(r, t) - TicksPerDay
      [] r \in {WeeklyUsers, WeeklyDownloads}   -> CurrentBucket(r, t) - 7 * TicksPerDay
      [] r \in {MonthlyUsers, MonthlyDownloads} -> Date(Year(t), Month(t) - 1, 1)

\* the dates a table holds rows for
DatesOf(tbl) == { r.stats_date : r \in BagToSet(tbl) }

\* C15: a job with "-d" that has run to its end has written, for each of the
\* six reports, the bucket that holds the current time and the bucket before
\* it, and no other bucket.
C15_DailyModeWritesTwoBuckets ==
    (RunComplete /\ dailyMode) =>
        \A r \in UsersReports \cup DownloadsReports :
            DatesOf(tables[ReportTable(r)]) = {PreviousBucket(r, now), CurrentBucket(r, now)}

\* the starts of the buckets of a report from its epoch on
EpochBuckets(r) ==
    { StepN(r, FirstStart(r, FALSE, now), k) : k \in 0..(MaxBuckets - 1) }

\* C16: a job without "-d" never writes a bucket whose start is after the
\* current time, and when it has run to its end it has written, for each of
\* the six reports, every bucket from the epoch on whose start is not after
\* the current time.
C16_FullModeWritesUpToNow ==
    ~dailyMode =>
        \A r \in UsersReports \cup DownloadsReports :
            /\ \A d \in DatesOf(tables[ReportTable(r)]) : d <= now
            /\ RunComplete =>
                  DatesOf(tables[ReportTable(r)]) = { s \in EpochBuckets(r) : s <= now }

\* updateUserAgents has returned to main() without an error in this job
RegistrarDone ==
    /\ lastCall.op # "none"
    /\ lastCall.op = "updateUserAgents" => ~lastCall.err

\* updateUserAgents returns to main()
RegistrarReturns == pc = "updateUserAgents" /\ lastCall' # lastCall

\* C17: a job aggregates a bucket or writes to a rollup table only after its
\* registrar has returned without an error; a registrar that returns an
\* error ends the job with the six rollup tables as they were.
C17_Step ==
    /\ (tables' # tables \/ (pc = "loop" /\ pc' = "save")) => RegistrarDone
    /\ pc = "updateUserAgents" => tables' = tables
    /\ (RegistrarReturns /\ lastCall'.err) => (pc' = "exit" /\ tables' = tables)
    /\ (pc = "exit" /\ exitCause = "updateUserAgents") => (tables' = tables /\ pc' # "loop")

C17_RegistrarComesFirst == [][C17_Step]_vars

\* the registrar has failed at its second insert: the first label is
\* registered, the job has ended and no rollup table holds a row
C17_Witness ==
    /\ pc = "exit"
    /\ exitCause = "updateUserAgents"
    /\ lastCall.op = "updateUserAgents"
    /\ lastCall.err
    /\ db4s_release_info # SeedReleaseInfo
    /\ tables = EmptyTables

\* C19: after every write of a save operation that succeeds with a row count
\* other than 1, be it the aggregate write or a per-category write, a warning
\* is logged, and the operation performs its remaining writes and returns
\* success.
C19_WrongRowCountWarns ==
    lastCall.op \in UsersReports \cup DownloadsReports =>
        /\ ~lastCall.err
        /\ Len(lastCall.writes) = 1 + Cardinality(DOMAIN lastCall.perCategory)
        /\ \A i \in 1..Len(lastCall.writes) :
              NumRowsOf(i, lastCall.rowsAt, lastCall.rowsAffected) # 1 => lastCall.warnings[i]

\* a bucket of a report is being aggregated or saved
InBucket ==
    /\ report \in UsersReports \cup DownloadsReports
    /\ pc = "save" \/ (pc = "loop" /\ LoopCondition(report, endDate, now))

\* C20: within one report the buckets follow one another: each starts where
\* the one before it ends, later than that one started, so no two overlap; a
\* daily bucket is 24 hours long, a weekly bucket 7 days.
C20_BucketLengths ==
    InBucket =>
        /\ startDate < endDate
        /\ report \in {DailyUsers, DailyDownloads} => endDate - startDate = TicksPerDay
        /\ report \in {WeeklyUsers, WeeklyDownloads} => endDate - startDate = 7 * TicksPerDay

C20_Step ==
    (InBucket /\ report' = report /\ startDate' # startDate) =>
        (startDate' = endDate /\ startDate' > startDate /\ endDate' > endDate)

C20_BucketsFollowOneAnother == []C20_BucketLengths /\ [][C20_Step]_vars

\* the second weekly bucket of a job is being saved, the first is stored
C20_Witness ==
    /\ pc = "save"
    /\ report = WeeklyUsers
    /\ startDate = AddDate(FirstStart(WeeklyUsers, dailyMode, now), 0, 0, 7)
    /\ endDate = startDate + 7 * TicksPerDay
    /\ DatesOf(tables[UsersWeekly]) = {startDate - 7 * TicksPerDay}

\* the first day with data of the family of a report
FirstDataDate(r) == IF r \in UsersReports THEN Date(2018, 8, 13) ELSE Date(2018, 8, 9)

\* the Monday of the ISO week of a day
ISOWeekStart(t) == (DayOf(t) - ((Weekday(t) + 6) % 7)) * TicksPerDay

\* C21: every weekly bucket starts on a Monday at 00:00 UTC; without "-d"
\* the first weekly bucket is the ISO week of the first day with data of the
\* family: 2018-08-13 for users, 2018-08-06 for downloads.
C21_WeeklyBucketsStartOnMonday ==
    \A r \in {WeeklyUsers, WeeklyDownloads} :
        /\ (InBucket /\ report = r) =>
              /\ Weekday(startDate) = 1 /\ TimeOfDay(startDate) = 0
              /\ ISOWeekStart(startDate) = startDate
        /\ ~dailyMode =>
              /\ FirstStart(r, dailyMode, now) = ISOWeekStart(FirstDataDate(r))
              /\ FirstStart(WeeklyUsers, dailyMode, now) = Date(2018, 8, 13)
              /\ FirstStart(WeeklyDownloads, dailyMode, now) = Date(2018, 8, 6)
              /\ \A d \in DatesOf(tables[ReportTable(r)]) : d >= ISOWeekStart(FirstDataDate(r))
              /\ DatesOf(tables[ReportTable(r)]) # {} =>
                    ISOWeekStart(FirstDataDate(r)) \in DatesOf(tables[ReportTable(r)])

\* a job without "-d" has stored the week of 2018-08-06 for downloads and is
\* at the week after it
C21_Witness ==
    /\ ~dailyMode
    /\ pc = "save"
    /\ report = WeeklyDownloads
    /\ startDate = Date(2018, 8, 13)
    /\ DatesOf(tables[DownloadsWeekly]) = {Date(2018, 8, 6)}
    /\ Date(2018, 8, 13) \in DatesOf(tables[UsersWeekly])

\* the save operation of the bucket at hand returns to main()
SaveReturns == pc = "save" /\ pc' # "save" /\ exitCause' # "killed"

\* what the aggregation of the bucket at hand has returned to main()
ReadOfBucket ==
    IF report \in UsersReports
    THEN [count |-> numIPs, perCategory |-> IPsPerUserAgent]
    ELSE [count |-> numDLs, perCategory |-> DLsPerVersion]

\* C22: a rollup table changes only in the save operation of a bucket whose
\* aggregation has returned, and with what it returned; in a save operation
\* the first write is that of the aggregate row (1 for users, 0 for
\* downloads) and every later write is a per-category write, so that a
\* per-category row is written only after the aggregate row of its date.
C22_Step ==
    /\ tables' # tables => SaveReturns
    /\ SaveReturns =>
          /\ lastCall'.op = report
          /\ lastCall'.date = startDate
          /\ lastCall'.count = ReadOfBucket.count
          /\ lastCall'.perCategory = ReadOfBucket.perCategory
          /\ lastCall'.writes # <<>> =>
                /\ ~lastCall'.writes[1].perCategory
                /\ lastCall'.writes[1].category = AggregateOf(report)
                /\ lastCall'.writes[1].count = ReadOfBucket.count
                /\ \E x \in RowsOn(tables'[ReportTable(report)], startDate) :
                      x.category = AggregateOf(report)
          /\ \A i \in 2..Len(lastCall'.writes) : lastCall'.writes[i].perCategory

C22_ReadThenAggregateThenCategories == [][C22_Step]_vars

\* a downloads save operation has written its aggregate row and its 40
\* per-artifact rows
C22_Witness ==
    /\ pc = "loop"
    /\ lastCall.op \in DownloadsReports
    /\ ~lastCall.err
    /\ Len(lastCall.writes) = 1 + NumArtifacts
    /\ ~lastCall.writes[1].perCategory
    /\ lastCall.writes[2].perCategory
    /\ lastCall.count > 0

\* the job has reached its end: main() has returned or the process has ended
RunEnded == pc \in {"done", "exit"}

\* the searches for the first weekly start come to an end: some Monday from
\* 2018-01-01 on is not before the clock, and some has the ISO week looked for
SearchesEnd ==
    /\ \E k \in 0..(((now - Date(2018, 1, 1)) \div (7 * TicksPerDay)) + 1) :
          ~Before(AddDate(Date(2018, 1, 1), 0, 0, 7 * k), now)
    /\ \A r \in UsersReports \cup DownloadsReports :
          \E k \in 0..ISOWeek(FirstDataDate(r)).week :
             ~(ISOWeek(AddDate(Date(2018, 1, 1), 0, 0, 7 * k)).week
                  < ISOWeek(FirstDataDate(r)).week)

\* C23: at every clock from the first day with data on and in either mode,
\* every database call returning, the job reaches its end: each of the six
\* loops goes through finitely many buckets (none of them twice), and the
\* searches for the first weekly start end.
C23_Step ==
    (InBucket /\ report' = report /\ pc = "save" /\ pc' = "loop") => startDate' > startDate

C23_RunEnds == <>RunEnded /\ []SearchesEnd /\ [][C23_Step]_vars

\* a job without "-d" has gone through the 25 daily downloads buckets from
\* 2018-08-09 to 2018-09-02 and has returned
C23_Witness ==
    /\ pc = "done"
    /\ ~dailyMode
    /\ Cardinality(DatesOf(tables[DownloadsDaily])) = 25

\* the column the client identity of a row comes from
IdentityField(row) ==
    IF IsUsable(row.client_ip_strange) THEN "client_ip_strange"
    ELSE IF IsUsable(row.client_ipv6) THEN "client_ipv6"
    ELSE "client_ipv4"

\* C24: identities that come from different address columns are different
\* clients: the total of a window counts the pairs of a column and the key
\* derived from it, so that two qualifying rows whose identities come from
\* different columns are never counted as one client.
C24_FieldsAreDistinctClients ==
    ScanDone =>
        numIPs = Cardinality({ <<IdentityField(r), ClientIdentity(r)>> : r \in Qualifying })

\* jobs over a log that does not change, any one of their database calls
\* failing: nothing is appended to the log and no job is killed
NextFixedLog ==
    \/ StartRun
    \/ UpdateUserAgents
    \/ AggregateUsers
    \/ AggregateDownloads
    \/ SaveUsers
    \/ SaveDownloads
    \/ NextReport
    \/ Finish

SpecFixedLog == InitRerun /\ [][NextFixedLog]_vars

\* the registrar of the job at hand has returned without an error
RegistrarSucceeded == pc \in {"loop", "save", "done"} \/ (pc = "exit" /\ RegistrarDone)

\* C25: the log not changing after the registrar and the registrar having
\* returned without an error, every user agent getIPs returns as a key has,
\* with its prefix stripped, a row in the version reference table, and every
\* per-version write of a users save operation has a release id that is not
\* NULL.
C25_EveryKeyIsRegistered ==
    RegistrarSucceeded =>
        /\ \A ua \in DOMAIN IPsPerUserAgent : ~Unregistered(ua)
        /\ lastCall.op \in UsersReports =>
              \A i \in 1..Len(lastCall.writes) :
                  lastCall.writes[i].perCategory => lastCall.writes[i].category # NULL

\* the same of the jobs none of whose database calls has failed
C25_NoFault == faultBudget = MaxFaults => C25_EveryKeyIsRegistered

\* the release id the save operations resolve user agent ua to
ResolvedID(ua) == ReleaseIDOf(db4s_release_info, TrimPrefix(ua)).id

\* a users save operation is called with a map whose labels are all
\* registered, and returns without an error
RegisteredUsersCall ==
    /\ runs' = runs + 1
    /\ lastCall'.op \in UsersReports
    /\ ~lastCall'.err
    /\ \A ua \in DOMAIN lastCall'.perCategory : ~Unregistered(ua)

\* C26: in a users save call all of whose labels are registered, different
\* keys of the map resolve to different release ids, and the tables after
\* the call are those of the call's writes in any order of the keys.
C26_Step ==
    RegisteredUsersCall =>
        /\ \A ua1, ua2 \in DOMAIN lastCall'.perCategory :
              ua1 # ua2 => ResolvedID(ua1) # ResolvedID(ua2)
        /\ \A order \in RangeOrders(lastCall'.perCategory) :
              tables' = SaveUsersReport(lastCall'.op, tables, db4s_release_info,
                                        lastCall'.date, lastCall'.count,
                                        lastCall'.perCategory, order, 0).tables

C26_OrderOfKeysDoesNotMatter == [][C26_Step]_vars

\* a call with two registered labels has returned without an error, and its
\* per-version rows are in the table
C26_Witness ==
    /\ lastCall.op \in UsersReports
    /\ ~lastCall.err
    /\ Cardinality(DOMAIN lastCall.perCategory) = 2
    /\ \A ua \in DOMAIN lastCall.perCategory :
          /\ ~Unregistered(ua)
          /\ \E r \in BagToSet(tables[ReportTable(lastCall.op)]) :
                r.stats_date = lastCall.date /\ r.category = ResolvedID(ua)

(***************************************************************************)
(* Jobs with and without "-d" at the same clocks.                          *)
(***************************************************************************)
LaterClocks ==
    Ticks(Date(2018, 12, 30), Date(2019, 1, 2))
    \cup Ticks(Date(2019, 2, 27), Date(2019, 3, 2))
ModeRuns == (BOOLEAN \X FullClocks) \cup ({TRUE} \X LaterClocks)

InitModes ==
    /\ download_log = ClockLog
    /\ db4s_release_info = SeedReleaseInfo
    /\ release_id_seq = SeedReleaseIdSeq
    /\ tables = EmptyTables
    /\ pc = "updateUserAgents"
    /\ report = "none"
    /\ \E run \in ModeRuns : dailyMode = run[1] /\ now = run[2]
    /\ startDate = 0
    /\ endDate = 0
    /\ numIPs = 0
    /\ IPsPerUserAgent = EmptyMap
    /\ numDLs = 0
    /\ DLsPerVersion = EmptyMap
    /\ scan = NoScan
    /\ lastCall = NoCall
    /\ exitCause = "none"
    /\ runs = MaxRuns
    /\ faultBudget = 0

SpecModes == InitModes /\ [][NextClock]_vars

\* the number of steps of report r from first to s, when s is one of them
BucketIndex(r, first, s) ==
    CASE r \in {DailyUsers, DailyDownloads}     -> (s - first) \div TicksPerDay
      [] r \in {WeeklyUsers, WeeklyDownloads}   -> (s - first) \div (7 * TicksPerDay)
      [] r \in {MonthlyUsers, MonthlyDownloads} ->
            12 * (Year(s) - Year(first)) + Month(s) - Month(first)

\* the loop of report r of a job without "-d" at this clock goes through a
\* bucket that starts at s: s is some number of steps from the first start,
\* and the loop condition holds of that bucket and of every bucket before it
FullModeProcesses(r, s, clock) ==
    LET first == FirstStart(r, FALSE, clock)
        k     == BucketIndex(r, first, s)
    IN  /\ k >= 0
        /\ StepN(r, first, k) = s
        /\ \A j \in 0..k : LoopCondition(r, StepDate(r, StepN(r, first, j)), clock)

\* every bucket a job is at is one a job without "-d" goes through at the
\* same clock, and so is every date a job with "-d" has written
WithinFullMode ==
    /\ (pc = "save" /\ report \in UsersReports \cup DownloadsReports) =>
          FullModeProcesses(report, startDate, now)
    /\ dailyMode =>
          \A r \in UsersReports \cup DownloadsReports :
              \A d \in DatesOf(tables[ReportTable(r)]) : FullModeProcesses(r, d, now)

\* C27 as stated: at every clock and for each of the six reports, every
\* bucket a job with "-d" goes through is a bucket a job without "-d" goes
\* through at the same clock, so that it writes rows only for dates a job
\* without "-d" writes.
C27_IncrementalWithinFull == WithinFullMode

\* C27 as amended: the same at every clock from 2018-09-01 00:00 UTC on,
\* when the day, the week and the month before the current ones are not
\* before the first buckets of a job without "-d".
C27_IncrementalWithinFullFromSeptember ==
    now >= Date(2018, 9, 1) => WithinFullMode

\* a job with "-d" in January 2019 is at the monthly users bucket of
\* December 2018 and has written the daily and weekly buckets before it
C27_Witness ==
    /\ dailyMode
    /\ now >= Date(2019, 1, 1)
    /\ pc = "save"
    /\ report = MonthlyUsers
    /\ startDate = Date(2018, 12, 1)
    /\ Cardinality(DatesOf(tables[UsersDaily])) >= 2
    /\ Cardinality(DatesOf(tables[UsersWeekly])) >= 2

\* the rows of a table for the dates other than date, with their copies
RowsOffDate(tbl, date) ==
    [r \in { x \in BagToSet(tbl) : x.stats_date # date } |-> tbl[r]]

\* a save operation is called
SaveCalled == runs' = runs + 1 /\ lastCall'.op \in UsersReports \cup DownloadsReports

\* C28: a save operation for the bucket of date d changes only rows of the
\* rollup table of its report whose stats_date is d: the rows of that table
\* for every other date, the five other rollup tables, the version reference
\* table with its sequence and the log are as they were.
C28_Step ==
    SaveCalled =>
        /\ \A n \in TableNames \ {ReportTable(lastCall'.op)} : tables'[n] = tables[n]
        /\ RowsOffDate(tables'[ReportTable(lastCall'.op)], lastCall'.date)
              = RowsOffDate(tables[ReportTable(lastCall'.op)], lastCall'.date)
        /\ db4s_release_info' = db4s_release_info
        /\ release_id_seq' = release_id_seq
        /\ download_log' = download_log

C28_SaveChangesOneDateOfOneTable == [][C28_Step]_vars

\* a weekly users save operation has written rows for one date into its
\* table, which holds rows for another date, and another table holds rows
C28_Witness ==
    /\ lastCall.op = WeeklyUsers
    /\ ~lastCall.err
    /\ \E d \in DatesOf(tables[UsersWeekly]) : d # lastCall.date
    /\ lastCall.date \in DatesOf(tables[UsersWeekly])
    /\ tables[UsersDaily] = EmptyBag

\* the (stats_date, category) keys of a table
KeysOf(tbl) == { <<r.stats_date, r.category>> : r \in BagToSet(tbl) }

\* the step is a save operation that writes the key of row r of table n
WritesKeyOf(n, r) ==
    /\ SaveReturns
    /\ n = ReportTable(report)
    /\ r.stats_date = startDate
    /\ \E i \in 1..Len(lastCall'.writes) : lastCall'.writes[i].category = r.category

\* C29: no step of any job deletes a rollup row: the keys of each of the six
\* tables only grow, and a row whose key the step does not write stays as it
\* is, so that the row of a version keeps its count when a later job's
\* aggregation for its date does not hold the version.
C29_Step ==
    \A n \in TableNames :
        /\ KeysOf(tables[n]) \subseteq KeysOf(tables'[n])
        /\ BagCardinality(tables[n]) <= BagCardinality(tables'[n])
        /\ \A r \in BagToSet(tables[n]) :
              ~WritesKeyOf(n, r) => (BagIn(r, tables'[n]) /\ tables'[n][r] = tables[n][r])

C29_RowsAreNeverDeleted == [][C29_Step]_vars

\* a second job has saved a daily users bucket whose aggregation lacks a
\* version the first job wrote a row for, and the row is there
C29_Witness ==
    /\ runs = 2
    /\ lastCall.op = DailyUsers
    /\ ~lastCall.err
    /\ \E r \in BagToSet(tables[UsersDaily]) :
          /\ r.stats_date = lastCall.date
          /\ r.category # NULL
          /\ \A i \in 1..Len(lastCall.writes) : lastCall.writes[i].category # r.category

\* a column with the empty text taken for NULL
EmptyAsNull(col) == IF col = NotNull(EmptyString) THEN NULL ELSE col

\* the first column of a row in the order strange, v6, v4 that is not NULL
\* once the empty text is taken for NULL; <<>> when there is none
FirstAddress(row) ==
    IF EmptyAsNull(row.client_ip_strange) # NULL THEN row.client_ip_strange
    ELSE IF EmptyAsNull(row.client_ipv6) # NULL THEN row.client_ipv6
    ELSE EmptyAsNull(row.client_ipv4)

\* getIPs is called for a bucket and returns, or ends the job
GetIPsCalled == pc = "loop" /\ report \in UsersReports /\ pc' # pc

\* C30: getIPs treats an address column that holds the empty text as it
\* treats a NULL one: the identity of a row is taken from the first column
\* in the order strange, v6, v4 that is neither, and a qualifying row whose
\* three columns are each NULL or empty ends the job.
C30_Step ==
    GetIPsCalled =>
        IF \E r \in Qualifying : FirstAddress(r) = NULL
        THEN pc' = "exit" /\ exitCause' = "no client IP"
        ELSE /\ pc' = "save"
             /\ DOMAIN scan'.uniqueIPs = { md5Sum(FirstAddress(r)[1]) : r \in Qualifying }
             /\ numIPs' = Cardinality({ FirstAddress(r) : r \in Qualifying })

C30_EmptyTextIsTakenForNull == [][C30_Step]_vars

\* the job has ended on the one row of the log, which has an empty text and
\* no address
C30_Witness ==
    /\ pc = "exit"
    /\ exitCause = "no client IP"
    /\ BagCardinality(download_log) = 1
    /\ \E r \in BagToSet(download_log) :
          /\ r.request = MarkerRequest
          /\ FirstAddress(r) = NULL
          /\ \/ r.client_ipv4 = NotNull(EmptyString)
             \/ r.client_ipv6 = NotNull(EmptyString)
             \/ r.client_ip_strange = NotNull(EmptyString)

\* a row whose client_ip_strange holds the empty text has been keyed by the
\* address of another column
C30_FallsThrough ==
    /\ ScanDone
    /\ \E r \in Qualifying :
          /\ r.client_ip_strange = NotNull(EmptyString)
          /\ FirstAddress(r) # NULL
          /\ md5Sum(FirstAddress(r)[1]) \in DOMAIN scan.uniqueIPs

=============================================================================
